---- MODULE Spec2Model ----
(***************************************************************************)
(* Model of the dog-poo detector's pipeline:                               *)
(*  - backend/poop_tracker.py (PoopInstance, PoopTracker), the deposit     *)
(*    lifecycle, driven the way backend/main.py and demo.py drive it;      *)
(*  - backend/event_detector.py (DogTrack, EventDetector);                 *)
(*  - backend/state_manager.py (StateManager), the alerts;                 *)
(*  - backend/web_server.py, as far as it is the tracker's notification    *)
(*    sink and the reader of the tracker's state;                          *)
(*  - backend/main.py, the construction and the loop body.                 *)
(* Spec is the tracker alone, SpecEvents the event detector alone,         *)
(* SpecAlerts the tracker followed by the alerts, SpecSink the tracker on  *)
(* a failing transport, SpecConfig construction on bad configurations and  *)
(* SpecMain the loop of main() with the server thread.                     *)
(*                                                                         *)
(* Conventions                                                             *)
(*  - a box is <<x1, y1, x2, y2>> in pixels, as in Detection.bbox;         *)
(*  - a point (Detection.center, PoopInstance.location, an event point)    *)
(*    is kept in HALF pixels, <<2*x, 2*y>>, so that (x1 + x2) / 2 stays    *)
(*    an integer; distances are compared squared;                          *)
(*  - a float ratio (an IoU, iou_threshold) is a pair <<num, den>> with    *)
(*    den > 0, compared by cross multiplication;                           *)
(*  - Python list indices are shifted by one (sequences start at 1);       *)
(*  - uuid4 ids are modelled by a counter: every id is fresh;              *)
(*  - datetime.now() is the logical clock now, in seconds, one tick per    *)
(*    cycle (per update call, or per process call in SpecEvents).          *)
(***************************************************************************)
EXTENDS Integers, Sequences, FiniteSets

\* ------------------------------------------------------------------------
\* Bounds of the model
\* ------------------------------------------------------------------------
\* number of update calls of a run
MaxTime == 4
\* largest stale_threshold of the configurations explored
MaxStale == 3
\* largest cleanup_confirm_frames of the configurations explored
MaxConfirm == 2

\* the first MaxFaults event_callback calls of an update call may hit a
\* failing transport
MaxFaults == 2

\* largest coordinate of the boxes _calculate_iou is called on by itself
MaxCoord == 2

\* largest inference_interval of the detector
MaxInterval == 2

\* number of calls in which a dog stands still before the frames vary, two
\* short of the capacity of a track's history
StandingTime == 88

\* ------------------------------------------------------------------------
\* The inputs explored
\* ------------------------------------------------------------------------
\* deposit-class boxes: BoxA and BoxA2 are the two boxes of the spec's
\* scenario (IoU 812/988); BoxB overlaps BoxA with IoU exactly 1/5
BoxA == <<100, 100, 130, 130>>
BoxA2 == <<102, 101, 132, 131>>
BoxB == <<120, 100, 150, 130>>

\* person boxes: PersonNear has its center 60 px from the center of BoxA,
\* PersonEdge exactly 100 px from it
PersonNear == <<135, 15, 215, 215>>
PersonEdge == <<175, 15, 255, 215>>

\* candidate event point (half pixels): the center of BoxA
EventPoint == <<230, 230>>

\* iou_threshold values explored: 1/5 is met exactly by BoxA against BoxB
IouThresholds == {<<1, 5>>}

\* dog boxes (backend/event_detector.py): DogA is 120 x 60 (aspect ratio 1/2);
\* DogA5 is DogA moved 5 px along x (the movement threshold exactly), DogA6
\* moved 6 px; DogTall is an 80 x 120 box with the center of DogA; DogFar is
\* more than 100 px away from all of them.  The boxes move along one axis,
\* so every distance between their centers is an integer.  Dog100 is DogA
\* moved 100 px along x (the match gate exactly), Dog60 is DogA moved 60 px:
\* 60 px from DogA, 40 px from Dog100.
DogA == <<200, 200, 320, 260>>
DogA5 == <<205, 200, 325, 260>>
DogA6 == <<206, 200, 326, 260>>
DogTall == <<220, 170, 300, 290>>
DogFar == <<500, 200, 620, 260>>
Dog100 == <<300, 200, 420, 260>>
Dog60 == <<260, 200, 380, 260>>

\* the sections of config.yaml explored (main.py lines 42-49)
TrackingConfigs ==
  [iou_threshold : IouThresholds,
   stale_threshold : 1..MaxStale,
   cleanup_confirm_frames : 1..MaxConfirm]

\* stationary_threshold in seconds, aspect_ratio_threshold as a ratio: 1/2 is
\* the aspect ratio of DogA
PoopingConfigs ==
  [stationary_threshold : {1, 2}, aspect_ratio_threshold : {<<1, 2>>}]

\* thresholds that let every duration and every box of the frames through
OpenPooping == [stationary_threshold |-> 0, aspect_ratio_threshold |-> <<2, 1>>]

\* aged_minutes as a ratio: 1/30 of a minute is 2 seconds
AlertConfigs ==
  [new_poop : BOOLEAN, cleanup : BOOLEAN, aged_minutes : {<<1, 60>>}]

VARIABLES
  active_poops,            \* PoopTracker.active_poops: sequence of PoopInstance
  cleaned_count,           \* PoopTracker.cleaned_count
  total_deposits,          \* PoopTracker.total_deposits
  iou_threshold,           \* PoopTracker.iou_threshold (config)
  stale_threshold,         \* PoopTracker.stale_threshold (config)
  cleanup_confirm_frames,  \* PoopTracker.cleanup_confirm_frames (config)
  notifications,           \* calls made to event_callback, in order
  next_id,                 \* number of ids generated so far
  now,                     \* the clock, in seconds
  config,                  \* the configuration main() loaded
  construction,            \* how the constructors of main() ended
  dog_tracks,              \* EventDetector.dog_tracks, in insertion order
  next_track_id,           \* EventDetector.next_track_id
  stationary_threshold,    \* EventDetector.stationary_threshold (config)
  aspect_ratio_threshold,  \* EventDetector.aspect_ratio_threshold (config)
  returned_events,         \* the list the last EventDetector.process returned
  transport_faults,        \* which event_callback calls of an update call hit a failing transport
  sink_errors,             \* the notifications broadcast_event_sync logged an error for
  uncaught,                \* an exception left update() and ended main()
  alert_new_poop,          \* StateManager.alert_new_poop (config)
  alert_cleanup,           \* StateManager.alert_cleanup (config)
  aged_minutes,            \* StateManager.aged_minutes (config), a ratio of minutes
  known_poop_ids,          \* StateManager.known_poop_ids
  last_state,              \* StateManager.last_state
  alerts,                  \* the alerts StateManager raised, in order
  pc,                      \* where main() is in its loop body
  frame_detections,        \* main(): detections of the frame in work
  current_state,           \* main(): the dict get_state returned for the frame
  web_state,               \* WebServer.current_state
  heap,                    \* the PoopInstance objects the dicts above refer to
  web_taken,               \* what those objects held when web_state was taken
  response,                \* the last answer of /api/status
  iou_bbox1,               \* first argument of a call of _calculate_iou
  iou_bbox2,               \* second argument of that call
  iou_result,              \* what the call returned, <<>> before it returns
  frame_count,             \* Detector.frame_count
  inference_interval       \* Detector.inference_interval

trackerVars == <<active_poops, cleaned_count, total_deposits, iou_threshold,
                 stale_threshold, cleanup_confirm_frames, notifications, next_id>>

eventVars == <<dog_tracks, next_track_id, stationary_threshold,
               aspect_ratio_threshold, returned_events>>

configVars == <<config, construction>>

sinkVars == <<transport_faults, sink_errors, uncaught>>

alertVars == <<alert_new_poop, alert_cleanup, aged_minutes, known_poop_ids, last_state,
               alerts>>

mainVars == <<pc, frame_detections, current_state>>

webVars == <<web_state, heap, web_taken, response>>

iouVars == <<iou_bbox1, iou_bbox2, iou_result>>

detVars == <<frame_count, inference_interval>>

vars == <<trackerVars, now, configVars, eventVars, sinkVars, alertVars, mainVars, webVars,
          iouVars, detVars>>

\* ------------------------------------------------------------------------
\* Detection (backend/detector.py)
\* ------------------------------------------------------------------------
Detection(class_name, bbox) == [class_name |-> class_name, bbox |-> bbox]

\* Detection.center, in half pixels
center(bbox) == <<bbox[1] + bbox[3], bbox[2] + bbox[4]>>

\* Detection.aspect_ratio: height / width, 0 if width <= 0
aspect_ratio(bbox) ==
  IF bbox[3] - bbox[1] > 0 THEN <<bbox[4] - bbox[2], bbox[3] - bbox[1]>> ELSE <<0, 1>>

\* ------------------------------------------------------------------------
\* Ratios
\* ------------------------------------------------------------------------
RatGT(a, b) == a[1] * b[2] > b[1] * a[2]

Zero == <<0, 1>>

max(a, b) == IF a >= b THEN a ELSE b

min(a, b) == IF a <= b THEN a ELSE b

\* ------------------------------------------------------------------------
\* PoopTracker._calculate_iou
\* ------------------------------------------------------------------------
\* _calculate_iou with the area of the first box as the union
calculate_iou_over_first(bbox1, bbox2) ==
  LET x1_i == max(bbox1[1], bbox2[1])
      y1_i == max(bbox1[2], bbox2[2])
      x2_i == min(bbox1[3], bbox2[3])
      y2_i == min(bbox1[4], bbox2[4])
      intersection == (x2_i - x1_i) * (y2_i - y1_i)
      area1 == (bbox1[3] - bbox1[1]) * (bbox1[4] - bbox1[2])
  IN  IF x2_i < x1_i \/ y2_i < y1_i THEN Zero
      ELSE IF area1 > 0 THEN <<intersection, area1>> ELSE Zero

\* _calculate_iou without the early return of lines 66-67
calculate_iou_no_early_return(bbox1, bbox2) ==
  LET x1_i == max(bbox1[1], bbox2[1])
      y1_i == max(bbox1[2], bbox2[2])
      x2_i == min(bbox1[3], bbox2[3])
      y2_i == min(bbox1[4], bbox2[4])
      intersection == (x2_i - x1_i) * (y2_i - y1_i)
      area1 == (bbox1[3] - bbox1[1]) * (bbox1[4] - bbox1[2])
      area2 == (bbox2[3] - bbox2[1]) * (bbox2[4] - bbox2[2])
      union == area1 + area2 - intersection
  IN  IF union > 0 THEN <<intersection, union>> ELSE Zero

calculate_iou(bbox1, bbox2) ==
  LET x1_i == max(bbox1[1], bbox2[1])
      y1_i == max(bbox1[2], bbox2[2])
      x2_i == min(bbox1[3], bbox2[3])
      y2_i == min(bbox1[4], bbox2[4])
      intersection == (x2_i - x1_i) * (y2_i - y1_i)
      area1 == (bbox1[3] - bbox1[1]) * (bbox1[4] - bbox1[2])
      area2 == (bbox2[3] - bbox2[1]) * (bbox2[4] - bbox2[2])
      union == area1 + area2 - intersection
  IN  IF x2_i < x1_i \/ y2_i < y1_i THEN Zero
      ELSE IF union > 0 THEN <<intersection, union>> ELSE Zero

\* ------------------------------------------------------------------------
\* PoopTracker._is_human_nearby (threshold 100 px, i.e. 200 half pixels)
\* ------------------------------------------------------------------------
ProximityThreshold == 100

is_human_nearby(poop, person_detections) ==
  \E i \in 1..Len(person_detections) :
    LET p == center(person_detections[i].bbox)
        dx == poop.location[1] - p[1]
        dy == poop.location[2] - p[2]
    IN  dx * dx + dy * dy < (2 * ProximityThreshold) * (2 * ProximityThreshold)

\* ------------------------------------------------------------------------
\* PoopInstance
\* ------------------------------------------------------------------------
PoopInstance(id, location, bbox, status, t) ==
  [id |-> id, location |-> location, bbox |-> bbox,
   first_seen |-> t, last_seen |-> t, status |-> status,
   missing_frames |-> 0, cleanup_candidate_frames |-> 0]

\* a notification: one call event_callback(kind, data); the data of
\* "poop_confirmed" and "poop_cleaned" are id and location, those of
\* "poop_detected" id, location and bbox
Note(kind, poop) ==
  IF kind = "poop_detected"
  THEN [kind |-> kind, id |-> poop.id, location |-> poop.location, bbox |-> poop.bbox]
  ELSE [kind |-> kind, id |-> poop.id, location |-> poop.location]

\* ------------------------------------------------------------------------
\* The registered sink (backend/web_server.py)
\* ------------------------------------------------------------------------
\* broadcast_event_sync without its try/except: the failure reaches the caller
broadcast_event_sync_unguarded(fails) == [raised |-> fails, logged |-> FALSE]

\* WebServer.broadcast_event_sync, lines 226-234, on a transport that fails or
\* not: the except branch logs the error and returns
broadcast_event_sync(fails) == [raised |-> FALSE, logged |-> fails]

\* one call self.event_callback(kind, data) inside update: lines 121-125,
\* 138-142 and 157-162; acc.failing holds the calls of this update (first,
\* second, ...) whose transport fails
notify(acc, note) ==
  LET outcome == broadcast_event_sync((Len(acc.notes) + 1) \in acc.failing)
  IN  [acc EXCEPT !.notes = Append(@, note),
                  !.sink_errors = IF outcome.logged THEN Append(@, note) ELSE @,
                  !.raised = outcome.raised]

\* ------------------------------------------------------------------------
\* PoopTracker.update, step by step
\* ------------------------------------------------------------------------
\* the inner loop without the test iou > best_iou of line 100: the last
\* detection above the threshold wins
RECURSIVE best_detection_last_above(_, _, _, _, _, _, _)
best_detection_last_above(poop, poop_detections, matched_indices, thr, i, best_iou, best) ==
  IF i > Len(poop_detections) THEN best
  ELSE IF i \in matched_indices
       THEN best_detection_last_above(poop, poop_detections, matched_indices, thr, i + 1,
                                      best_iou, best)
       ELSE LET iou == calculate_iou(poop.bbox, poop_detections[i].bbox)
            IN  IF RatGT(iou, thr)
                THEN best_detection_last_above(poop, poop_detections, matched_indices, thr,
                                               i + 1, iou, i)
                ELSE best_detection_last_above(poop, poop_detections, matched_indices, thr,
                                               i + 1, best_iou, best)

\* the inner loop over poop_detections: index of the best detection, 0 if none
RECURSIVE best_detection(_, _, _, _, _, _, _)
best_detection(poop, poop_detections, matched_indices, thr, i, best_iou, best) ==
  IF i > Len(poop_detections) THEN best
  ELSE IF i \in matched_indices
       THEN best_detection(poop, poop_detections, matched_indices, thr, i + 1, best_iou, best)
       ELSE LET iou == calculate_iou(poop.bbox, poop_detections[i].bbox)
            IN  IF RatGT(iou, best_iou) /\ RatGT(iou, thr)
                THEN best_detection(poop, poop_detections, matched_indices, thr, i + 1, iou, i)
                ELSE best_detection(poop, poop_detections, matched_indices, thr, i + 1, best_iou, best)

\* on_match with line 115 left out: the cleanup-candidate counter survives a match
on_match_keeps_streak(poop, detection, t) ==
  [poop EXCEPT !.bbox = detection.bbox,
               !.location = center(detection.bbox),
               !.last_seen = t,
               !.missing_frames = 0,
               !.status = IF poop.status = "pending" THEN "active" ELSE poop.status]

\* the deposit after a match: lines 110-119
on_match(poop, detection, t) ==
  [poop EXCEPT !.bbox = detection.bbox,
               !.location = center(detection.bbox),
               !.last_seen = t,
               !.missing_frames = 0,
               !.cleanup_candidate_frames = 0,
               !.status = IF poop.status = "pending" THEN "active" ELSE poop.status]

\* on_unmatched with the else of lines 143-144 left out: the counter is not
\* reset by a call without a person nearby
on_unmatched_keeps_streak(poop, person_detections, confirm) ==
  LET missed == [poop EXCEPT !.missing_frames = poop.missing_frames + 1]
  IN  IF is_human_nearby(missed, person_detections)
      THEN LET counted == [missed EXCEPT !.cleanup_candidate_frames =
                                            missed.cleanup_candidate_frames + 1]
           IN  IF counted.cleanup_candidate_frames >= confirm
               THEN [poop |-> [counted EXCEPT !.status = "cleaned"], cleaned |-> TRUE]
               ELSE [poop |-> counted, cleaned |-> FALSE]
      ELSE [poop |-> missed, cleaned |-> FALSE]

\* the branch without a match, lines 127-144: the deposit afterwards, and
\* whether lines 135-142 ran (cleaned_count += 1 and the "poop_cleaned" call)
on_unmatched(poop, person_detections, confirm) ==
  LET missed == [poop EXCEPT !.missing_frames = poop.missing_frames + 1]
  IN  IF is_human_nearby(missed, person_detections)
      THEN LET counted == [missed EXCEPT !.cleanup_candidate_frames =
                                            missed.cleanup_candidate_frames + 1]
           IN  IF counted.cleanup_candidate_frames >= confirm
               THEN [poop |-> [counted EXCEPT !.status = "cleaned"], cleaned |-> TRUE]
               ELSE [poop |-> counted, cleaned |-> FALSE]
      ELSE [poop |-> [missed EXCEPT !.cleanup_candidate_frames = 0], cleaned |-> FALSE]

\* the loop over self.active_poops: lines 93-144
RECURSIVE match_loop(_, _, _, _, _, _, _)
match_loop(k, acc, poop_detections, person_detections, thr, confirm, t) ==
  IF k > Len(acc.poops) \/ acc.raised THEN acc
  ELSE
    LET poop == acc.poops[k]
        idx == best_detection(poop, poop_detections, acc.matched_indices, thr, 1, Zero, 0)
    IN  IF idx # 0
        THEN LET upd == on_match(poop, poop_detections[idx], t)
             IN  match_loop(k + 1,
                   LET set == [acc EXCEPT !.poops[k] = upd,
                                          !.matched_indices = @ \cup {idx}]
                   IN  IF poop.status = "pending"
                       THEN notify(set, Note("poop_confirmed", upd))
                       ELSE set,
                   poop_detections, person_detections, thr, confirm, t)
        ELSE LET upd == on_unmatched(poop, person_detections, confirm)
             IN  match_loop(k + 1,
                   LET set == [acc EXCEPT !.poops[k] = upd.poop,
                                          !.cleaned_count = IF upd.cleaned THEN @ + 1 ELSE @]
                   IN  IF upd.cleaned
                       THEN notify(set, Note("poop_cleaned", upd.poop))
                       ELSE set,
                   poop_detections, person_detections, thr, confirm, t)

\* new_poop with the status argument of line 152 left out (the dataclass
\* default is "pending")
new_poop_default_status(id, detection, t) ==
  PoopInstance(id, center(detection.bbox), detection.bbox, "pending", t)

\* a deposit created from an unmatched detection: lines 149-153
new_poop(id, detection, t) ==
  PoopInstance(id, center(detection.bbox), detection.bbox, "active", t)

\* the creation loop without line 155 (self.total_deposits += 1)
RECURSIVE create_loop_uncounted(_, _, _, _)
create_loop_uncounted(i, acc, poop_detections, t) ==
  IF i > Len(poop_detections) \/ acc.raised THEN acc
  ELSE IF i \in acc.matched_indices
       THEN create_loop_uncounted(i + 1, acc, poop_detections, t)
       ELSE LET p == new_poop(acc.next_id, poop_detections[i], t)
            IN  create_loop_uncounted(i + 1,
                  notify([acc EXCEPT !.poops = Append(@, p),
                                     !.next_id = @ + 1],
                         Note("poop_detected", p)),
                  poop_detections, t)

\* the loop creating deposits for unmatched detections: lines 147-162
RECURSIVE create_loop(_, _, _, _)
create_loop(i, acc, poop_detections, t) ==
  IF i > Len(poop_detections) \/ acc.raised THEN acc
  ELSE IF i \in acc.matched_indices
       THEN create_loop(i + 1, acc, poop_detections, t)
       ELSE LET p == new_poop(acc.next_id, poop_detections[i], t)
            IN  create_loop(i + 1,
                  notify([acc EXCEPT !.poops = Append(@, p),
                                     !.next_id = @ + 1,
                                     !.total_deposits = @ + 1],
                         Note("poop_detected", p)),
                  poop_detections, t)

\* pending_poop created as new_poop creates its deposits, with status active
pending_poop_active(id, event_location, t) ==
  PoopInstance(id, event_location, <<0, 0, 0, 0>>, "active", t)

\* a deposit created from a pooping event: lines 166-169
pending_poop(id, event_location, t) ==
  PoopInstance(id, event_location, <<0, 0, 0, 0>>, "pending", t)

\* the loop creating pending deposits: lines 165-171
RECURSIVE pending_loop(_, _, _, _)
pending_loop(i, acc, pooping_events, t) ==
  IF i > Len(pooping_events) \/ acc.raised THEN acc
  ELSE pending_loop(i + 1,
         [acc EXCEPT !.poops = Append(@, pending_poop(acc.next_id, pooping_events[i], t)),
                     !.next_id = @ + 1],
         pooping_events, t)

\* keep without the status test: cleaned deposits stay until they are stale
keep_cleaned(p, stale) == p.missing_frames < stale

\* keep with the staleness test one frame early
keep_early(p, stale) == p.status # "cleaned" /\ p.missing_frames + 1 < stale

\* keep with the staleness test one frame late
keep_late(p, stale) == p.status # "cleaned" /\ p.missing_frames <= stale

\* the filter of lines 174-177
keep(p, stale) == p.status # "cleaned" /\ p.missing_frames < stale

prune(poops, stale) == SelectSeq(poops, LAMBDA p : keep(p, stale))

poop_detections_of(detections) == SelectSeq(detections, LAMBDA d : d.class_name = "poop")

person_detections_of(detections) == SelectSeq(detections, LAMBDA d : d.class_name = "person")

\* the tracker state update() starts from
start_acc ==
  [poops |-> active_poops, matched_indices |-> {}, cleaned_count |-> cleaned_count,
   total_deposits |-> total_deposits, next_id |-> next_id, notes |-> <<>>,
   failing |-> transport_faults, sink_errors |-> sink_errors, raised |-> FALSE]

\* state after the matching loop of update(detections, _) called at time t
after_match(detections, t) ==
  match_loop(1, start_acc, poop_detections_of(detections),
             person_detections_of(detections), iou_threshold, cleanup_confirm_frames, t)

\* state after the two creation loops
after_create(detections, pooping_events, t) ==
  pending_loop(1, create_loop(1, after_match(detections, t),
                              poop_detections_of(detections), t),
               pooping_events, t)

\* PoopTracker.update(detections, pooping_events)
update(detections, pooping_events) ==
  /\ now < MaxTime
  /\ LET t == now + 1
         r == after_create(detections, pooping_events, t)
     IN  /\ active_poops' = IF r.raised THEN r.poops ELSE prune(r.poops, stale_threshold)
         /\ cleaned_count' = r.cleaned_count
         /\ total_deposits' = r.total_deposits
         /\ next_id' = r.next_id
         /\ notifications' = notifications \o r.notes
         /\ sink_errors' = r.sink_errors
         /\ uncaught' = r.raised
         /\ now' = t
  /\ UNCHANGED <<iou_threshold, stale_threshold, cleanup_confirm_frames, transport_faults>>

\* PoopTracker.get_state
get_state ==
  [active_poops |-> SelectSeq(active_poops, LAMBDA p : p.status = "active"),
   pending_poops |-> SelectSeq(active_poops, LAMBDA p : p.status = "pending"),
   cleaned_count |-> cleaned_count,
   total_deposits |-> total_deposits]

\* ------------------------------------------------------------------------
\* DogTrack (backend/event_detector.py)
\* ------------------------------------------------------------------------
\* deque(maxlen=90)
HistoryCapacity == 90

\* is_stale(max_age_seconds=1.0)
MaxAgeSeconds == 1

\* EventDetector.movement_threshold, pixels
MovementThreshold == 5

\* the match gate of _update_tracks, pixels
MatchGate == 100

\* "movement unknown": float('inf'), above every ratio
Infinity == <<1, 0>>

\* greatest common divisor of two naturals, m > 0 or n > 0
RECURSIVE GCD(_, _)
GCD(m, n) == IF n = 0 THEN m ELSE GCD(n, m % n)

\* the sum of two ratios, in lowest terms
RatAdd(a, b) ==
  LET num == a[1] * b[2] + b[1] * a[2]
      den == a[2] * b[2]
  IN  <<num \div GCD(num, den), den \div GCD(num, den)>>

\* ** 0.5 on the squared distances met here, all of them perfect squares
Sqrt(n) == CHOOSE r \in 0..n : r * r = n

\* squared distance of two points (half pixels)
distance2(point1, point2) ==
  (point2[1] - point1[1]) * (point2[1] - point1[1])
    + (point2[2] - point1[2]) * (point2[2] - point1[2])

\* add_position on a deque without maxlen
add_position_unbounded(track, detection, t) ==
  LET sample == [center |-> center(detection.bbox), bbox |-> detection.bbox,
                 aspect_ratio |-> aspect_ratio(detection.bbox), timestamp |-> t]
  IN  [track EXCEPT !.positions = Append(track.positions, sample),
                    !.last_update = t]

\* DogTrack.add_position at time t
add_position(track, detection, t) ==
  LET sample == [center |-> center(detection.bbox), bbox |-> detection.bbox,
                 aspect_ratio |-> aspect_ratio(detection.bbox), timestamp |-> t]
      appended == Append(track.positions, sample)
  IN  [track EXCEPT !.positions = IF Len(appended) > HistoryCapacity
                                  THEN Tail(appended) ELSE appended,
                    !.last_update = t]

\* DogTrack.__init__ for the track stored under track_id
DogTrack(track_id, detection, t) ==
  add_position([track_id |-> track_id, positions |-> <<>>, last_update |-> t],
               detection, t)

\* is_stale with twice the default window
is_stale_after_two(track, t) == t - track.last_update > 2 * MaxAgeSeconds

\* DogTrack.is_stale at time t
is_stale(track, t) == t - track.last_update > MaxAgeSeconds

\* DogTrack.get_average_movement, half pixels per step
\* the distances added by the loop of lines 38-43 for i in lo..hi (the sum
\* is taken by halves, which keeps the evaluation shallow on long tracks)
RECURSIVE movement_between(_, _, _)
movement_between(positions, lo, hi) ==
  IF lo > hi THEN 0
  ELSE IF lo = hi THEN Sqrt(distance2(positions[lo - 1].center, positions[lo].center))
  ELSE LET mid == (lo + hi) \div 2
       IN  movement_between(positions, lo, mid) + movement_between(positions, mid + 1, hi)

total_movement(positions, i) == movement_between(positions, i, Len(positions))

\* get_average_movement taking a track with fewer than two samples as still
get_average_movement_unknown_is_still(track) ==
  IF Len(track.positions) < 2 THEN <<0, 1>>
  ELSE <<total_movement(track.positions, 2), Len(track.positions) - 1>>

get_average_movement(track) ==
  IF Len(track.positions) < 2 THEN Infinity
  ELSE <<total_movement(track.positions, 2), Len(track.positions) - 1>>

\* DogTrack.get_average_aspect_ratio
\* the aspect ratios added by sum() of line 52 for the samples lo..hi (by
\* halves, as above; the sum of ratios is exact in any order)
RECURSIVE aspect_ratio_between(_, _, _)
aspect_ratio_between(positions, lo, hi) ==
  IF lo > hi THEN <<0, 1>>
  ELSE IF lo = hi THEN RatAdd(positions[lo].aspect_ratio, <<0, 1>>)
  ELSE LET mid == (lo + hi) \div 2
       IN  RatAdd(aspect_ratio_between(positions, lo, mid),
                  aspect_ratio_between(positions, mid + 1, hi))

sum_aspect_ratio(positions, i) == aspect_ratio_between(positions, i, Len(positions))

get_average_aspect_ratio(track) ==
  IF Len(track.positions) = 0 THEN <<1, 1>>
  ELSE LET sum == sum_aspect_ratio(track.positions, 1)
       IN  <<sum[1], sum[2] * Len(track.positions)>>

\* DogTrack.get_track_duration, seconds
get_track_duration(track) ==
  IF Len(track.positions) < 2 THEN 0
  ELSE track.positions[Len(track.positions)].timestamp - track.positions[1].timestamp

\* DogTrack.get_ground_location, half pixels
get_ground_location(track) ==
  IF Len(track.positions) = 0 THEN <<0, 0>>
  ELSE LET last_bbox == track.positions[Len(track.positions)].bbox
       IN  <<last_bbox[1] + last_bbox[3], 2 * last_bbox[4]>>

\* ------------------------------------------------------------------------
\* EventDetector
\* ------------------------------------------------------------------------
\* _is_pooping with a strict duration gate
is_pooping_strict_duration(track, stationary, aspect) ==
  IF get_track_duration(track) <= stationary THEN FALSE
  ELSE IF RatGT(get_average_movement(track), <<2 * MovementThreshold, 1>>) THEN FALSE
  ELSE IF RatGT(get_average_aspect_ratio(track), aspect) THEN FALSE
  ELSE TRUE

\* EventDetector._is_pooping
is_pooping(track, stationary, aspect) ==
  IF get_track_duration(track) < stationary THEN FALSE
  ELSE IF RatGT(get_average_movement(track), <<2 * MovementThreshold, 1>>) THEN FALSE
  ELSE IF RatGT(get_average_aspect_ratio(track), aspect) THEN FALSE
  ELSE TRUE

\* the inner loop of _update_tracks with the gate distance <= 100
RECURSIVE nearest_detection_at_gate(_, _, _, _, _, _)
nearest_detection_at_gate(last_center, dog_detections, matched_detections, i, best_distance2, best) ==
  IF i > Len(dog_detections) THEN best
  ELSE IF i \in matched_detections
       THEN nearest_detection_at_gate(last_center, dog_detections, matched_detections,
                                             i + 1, best_distance2, best)
       ELSE LET d2 == distance2(last_center, center(dog_detections[i].bbox))
            IN  IF (best_distance2 = -1 \/ d2 < best_distance2)
                   /\ d2 <= (2 * MatchGate) * (2 * MatchGate)
                THEN nearest_detection_at_gate(last_center, dog_detections,
                                                      matched_detections, i + 1, d2, i)
                ELSE nearest_detection_at_gate(last_center, dog_detections,
                                                      matched_detections, i + 1,
                                                      best_distance2, best)

\* the inner loop of _update_tracks: index of the nearest unclaimed detection
\* closer than the gate, 0 if none; best_distance2 = -1 stands for infinity
RECURSIVE nearest_detection(_, _, _, _, _, _)
nearest_detection(last_center, dog_detections, matched_detections, i, best_distance2, best) ==
  IF i > Len(dog_detections) THEN best
  ELSE IF i \in matched_detections
       THEN nearest_detection(last_center, dog_detections, matched_detections, i + 1,
                              best_distance2, best)
       ELSE LET d2 == distance2(last_center, center(dog_detections[i].bbox))
            IN  IF (best_distance2 = -1 \/ d2 < best_distance2)
                   /\ d2 < (2 * MatchGate) * (2 * MatchGate)
                THEN nearest_detection(last_center, dog_detections, matched_detections,
                                       i + 1, d2, i)
                ELSE nearest_detection(last_center, dog_detections, matched_detections,
                                       i + 1, best_distance2, best)

\* the loop over self.dog_tracks without line 154: the detection a track
\* took is not marked as matched
RECURSIVE track_loop_unclaimed(_, _, _, _)
track_loop_unclaimed(k, acc, dog_detections, t) ==
  IF k > Len(acc.tracks) THEN acc
  ELSE
    LET track == acc.tracks[k]
        idx == IF Len(track.positions) = 0 THEN 0
               ELSE nearest_detection(track.positions[Len(track.positions)].center,
                                      dog_detections, acc.matched_detections, 1, -1, 0)
    IN  IF idx # 0
        THEN track_loop_unclaimed(k + 1,
               [acc EXCEPT !.tracks[k] = add_position(track, dog_detections[idx], t)],
               dog_detections, t)
        ELSE track_loop_unclaimed(k + 1, acc, dog_detections, t)

\* the loop over self.dog_tracks of _update_tracks: lines 134-154
RECURSIVE track_loop(_, _, _, _)
track_loop(k, acc, dog_detections, t) ==
  IF k > Len(acc.tracks) THEN acc
  ELSE
    LET track == acc.tracks[k]
        idx == IF Len(track.positions) = 0 THEN 0
               ELSE nearest_detection(track.positions[Len(track.positions)].center,
                                      dog_detections, acc.matched_detections, 1, -1, 0)
    IN  IF idx # 0
        THEN track_loop(k + 1,
               [acc EXCEPT !.tracks[k] = add_position(track, dog_detections[idx], t),
                           !.matched_detections = @ \cup {idx}],
               dog_detections, t)
        ELSE track_loop(k + 1, acc, dog_detections, t)

\* the loop creating tracks without the increment of line 160
RECURSIVE spawn_loop_same_id(_, _, _, _)
spawn_loop_same_id(i, acc, dog_detections, t) ==
  IF i > Len(dog_detections) THEN acc
  ELSE IF i \in acc.matched_detections
       THEN spawn_loop_same_id(i + 1, acc, dog_detections, t)
       ELSE spawn_loop_same_id(i + 1,
              [acc EXCEPT !.tracks = Append(@, DogTrack(acc.next_track_id, dog_detections[i], t))],
              dog_detections, t)

\* the loop creating tracks for unmatched detections: lines 157-160
RECURSIVE spawn_loop(_, _, _, _)
spawn_loop(i, acc, dog_detections, t) ==
  IF i > Len(dog_detections) THEN acc
  ELSE IF i \in acc.matched_detections
       THEN spawn_loop(i + 1, acc, dog_detections, t)
       ELSE spawn_loop(i + 1,
              [acc EXCEPT !.tracks = Append(@, DogTrack(acc.next_track_id, dog_detections[i], t)),
                          !.next_track_id = @ + 1],
              dog_detections, t)

\* EventDetector._update_tracks at time t
update_tracks(dog_detections, t) ==
  spawn_loop(1,
    track_loop(1, [tracks |-> dog_tracks, matched_detections |-> {},
                   next_track_id |-> next_track_id],
               dog_detections, t),
    dog_detections, t)

dog_detections_of(detections) == SelectSeq(detections, LAMBDA d : d.class_name = "dog")

\* events_of reporting a track only in the cycle its duration reaches the
\* threshold
events_of_once(tracks, stationary, aspect) ==
  LET pooping == SelectSeq(tracks, LAMBDA track :
                             /\ is_pooping(track, stationary, aspect)
                             /\ get_track_duration(track) = stationary)
  IN  [j \in 1..Len(pooping) |-> get_ground_location(pooping[j])]

\* the loop of lines 109-113: the ground locations of the tracks that pass
\* _is_pooping, in track order
events_of(tracks, stationary, aspect) ==
  LET pooping == SelectSeq(tracks, LAMBDA track : is_pooping(track, stationary, aspect))
  IN  [j \in 1..Len(pooping) |-> get_ground_location(pooping[j])]

\* EventDetector.process(detections) at time t: what it returns and the
\* tracks it leaves
process(detections, t) ==
  LET updated == update_tracks(dog_detections_of(detections), t)
  IN  [pooping_events |-> events_of(updated.tracks, stationary_threshold,
                                    aspect_ratio_threshold),
       dog_tracks |-> SelectSeq(updated.tracks, LAMBDA track : ~is_stale(track, t)),
       next_track_id |-> updated.next_track_id]

\* ------------------------------------------------------------------------
\* StateManager (backend/state_manager.py)
\* ------------------------------------------------------------------------
\* dict.get(key, default)
get(dict, key, default) == IF key \in DOMAIN dict THEN dict[key] ELSE default

\* an alert: one call of _alert_new_poop, _alert_cleanup or _alert_aged_poop
Alert(kind, subject) == [kind |-> kind, subject |-> subject]

\* the ids of a list of deposits, in list order
ids_of(poops) == [k \in 1..Len(poops) |-> poops[k].id]

\* new_ids when known_poop_ids is not consulted
new_ids_ignoring_known(poops, known) == ids_of(poops)

\* lines 39-40: current_ids - known_poop_ids, in list order
new_ids(poops, known) == SelectSeq(ids_of(poops), LAMBDA id : id \notin known)

\* cleanups compared with a previous count of 0
cleanups_since_start(cleaned, prev_cleaned) == cleaned

\* lines 48-50: the number of cleanups since the previous call
cleanups(cleaned, prev_cleaned) == IF cleaned > prev_cleaned THEN cleaned - prev_cleaned ELSE 0

\* is_aged with a strict comparison
is_aged_strict(poop, minutes, t) == (t - poop.first_seen) * minutes[2] > 60 * minutes[1]

\* lines 54-56: age_minutes >= aged_minutes at time t
is_aged(poop, minutes, t) == (t - poop.first_seen) * minutes[2] >= 60 * minutes[1]

\* StateManager.update(tracker_state) at time t: the fields it leaves and the
\* alerts it raises
state_manager_update(tracker_state, t) ==
  LET active == get(tracker_state, "active_poops", <<>>)
      cleaned == get(tracker_state, "cleaned_count", 0)
      total == get(tracker_state, "total_deposits", 0)
      fresh == IF alert_new_poop THEN new_ids(active, known_poop_ids) ELSE <<>>
      swept == IF alert_cleanup THEN cleanups(cleaned, get(last_state, "cleaned_count", 0))
               ELSE 0
      aged == SelectSeq(active, LAMBDA poop : is_aged(poop, aged_minutes, t))
  IN  [known_poop_ids |-> known_poop_ids \cup {fresh[k] : k \in 1..Len(fresh)},
       last_state |-> [active_count |-> Len(active), cleaned_count |-> cleaned,
                       total_deposits |-> total],
       alerts |-> [k \in 1..Len(fresh) |-> Alert("new_poop", fresh[k])]
                    \o (IF swept > 0 THEN <<Alert("cleanup", swept)>> ELSE <<>>)
                    \o [k \in 1..Len(aged) |-> Alert("aged_poop", aged[k].id)]]

\* ------------------------------------------------------------------------
\* Snapshots and the web server (backend/web_server.py)
\* ------------------------------------------------------------------------
\* The lists get_state builds hold the PoopInstance objects of the tracker,
\* not copies.  A dict returned by get_state is modelled with the ids of
\* those objects in its lists, and heap maps each id to what the object holds.

\* PoopTracker.get_state as its callers hold it: lists of references
get_state_refs ==
  [active_poops |-> ids_of(get_state.active_poops),
   pending_poops |-> ids_of(get_state.pending_poops),
   cleaned_count |-> get_state.cleaned_count,
   total_deposits |-> get_state.total_deposits]

\* the objects a dict of get_state refers to
refs_of(state) ==
  {get(state, "active_poops", <<>>)[k] : k \in 1..Len(get(state, "active_poops", <<>>))}
    \cup {get(state, "pending_poops", <<>>)[k] : k \in 1..Len(get(state, "pending_poops", <<>>))}

\* what the object `id` holds: the tracker's deposit while the tracker has
\* it, what was last written to it afterwards
object(id) ==
  IF \E k \in 1..Len(active_poops) : active_poops[k].id = id
  THEN active_poops[CHOOSE k \in 1..Len(active_poops) : active_poops[k].id = id]
  ELSE heap[id]

\* the objects after an update call wrote the deposits `poops` (the list
\* before the prune): update assigns to the fields of the objects in place
written(objects, poops) ==
  [id \in DOMAIN objects |->
     IF \E k \in 1..Len(poops) : poops[k].id = id
     THEN poops[CHOOSE k \in 1..Len(poops) : poops[k].id = id]
     ELSE objects[id]]

\* WebServer._format_status(state) at time t, reading the objects
format_status(state, objects, t) ==
  LET active == get(state, "active_poops", <<>>)
      pending == get(state, "pending_poops", <<>>)
  IN  [active_poops |-> [k \in 1..Len(active) |->
                           [id |-> objects[active[k]].id,
                            location |-> objects[active[k]].location,
                            bbox |-> objects[active[k]].bbox,
                            age_seconds |-> t - objects[active[k]].first_seen,
                            status |-> objects[active[k]].status]],
       pending_poops |-> [k \in 1..Len(pending) |->
                            [id |-> objects[pending[k]].id,
                             location |-> objects[pending[k]].location,
                             status |-> objects[pending[k]].status]],
       metrics |-> [active_count |-> Len(active),
                    pending_count |-> Len(pending),
                    cleaned_count |-> get(state, "cleaned_count", 0),
                    total_deposits |-> get(state, "total_deposits", 0)]]

\* the tracker_state StateManager.update and the annotator read through a
\* dict of get_state
followed(state, objects) ==
  [active_poops |-> [k \in 1..Len(state.active_poops) |-> objects[state.active_poops[k]]],
   pending_poops |-> [k \in 1..Len(state.pending_poops) |-> objects[state.pending_poops[k]]],
   cleaned_count |-> state.cleaned_count,
   total_deposits |-> state.total_deposits]

\* ------------------------------------------------------------------------
\* Frames: the arguments of one update call
\* ------------------------------------------------------------------------
Frame(detections, pooping_events) ==
  [detections |-> detections, pooping_events |-> pooping_events]

Frames ==
  { Frame(<<>>, <<>>),
    Frame(<<Detection("poop", BoxA)>>, <<>>),
    Frame(<<Detection("poop", BoxA2)>>, <<>>),
    Frame(<<Detection("poop", BoxB), Detection("poop", BoxA)>>, <<>>),
    Frame(<<Detection("person", PersonNear)>>, <<>>),
    Frame(<<Detection("person", PersonEdge)>>, <<>>),
    Frame(<<Detection("person", PersonEdge), Detection("person", PersonNear),
            Detection("poop", BoxB)>>, <<>>),
    Frame(<<>>, <<EventPoint>>),
    Frame(<<Detection("poop", BoxA)>>, <<EventPoint, EventPoint>>) }

\* ------------------------------------------------------------------------
\* Construction (main.py lines 42-49)
\* ------------------------------------------------------------------------
\* EventDetector.__init__: the keys it reads from its section
EventDetector_keys == {"stationary_threshold", "aspect_ratio_threshold"}

\* PoopTracker.__init__: the keys it reads from its section
PoopTracker_keys == {"iou_threshold", "stale_threshold", "cleanup_confirm_frames"}

\* StateManager.__init__: the keys it reads from its section
StateManager_keys == {"new_poop", "cleanup", "aged_minutes"}

\* how the three constructors end: config[key] raises KeyError on a missing
\* key and nothing else is looked at
construct(cfg) ==
  IF /\ EventDetector_keys \subseteq DOMAIN cfg.pooping_detection
     /\ PoopTracker_keys \subseteq DOMAIN cfg.tracking
     /\ StateManager_keys \subseteq DOMAIN cfg.alerts
  THEN "ok" ELSE "KeyError"

\* the value a constructor stores for a key; 0 stands for "no object" when
\* construction failed
stored(section, key) == IF key \in DOMAIN section THEN section[key] ELSE 0

\* PoopTracker.__init__
PoopTracker_init(cfg) ==
  /\ active_poops = <<>>
  /\ cleaned_count = 0
  /\ total_deposits = 0
  /\ iou_threshold = stored(cfg, "iou_threshold")
  /\ stale_threshold = stored(cfg, "stale_threshold")
  /\ cleanup_confirm_frames = stored(cfg, "cleanup_confirm_frames")
  /\ notifications = <<>>
  /\ next_id = 0

\* EventDetector.__init__
EventDetector_init(cfg) ==
  /\ dog_tracks = <<>>
  /\ next_track_id = 0
  /\ stationary_threshold = stored(cfg, "stationary_threshold")
  /\ aspect_ratio_threshold = stored(cfg, "aspect_ratio_threshold")
  /\ returned_events = <<>>

\* StateManager.__init__
StateManager_init(cfg) ==
  /\ alert_new_poop = stored(cfg, "new_poop")
  /\ alert_cleanup = stored(cfg, "cleanup")
  /\ aged_minutes = stored(cfg, "aged_minutes")
  /\ known_poop_ids = {}
  /\ last_state = <<>>
  /\ alerts = <<>>

\* WebServer.__init__, lines 33-34, with no object referred to yet
WebServer_init ==
  /\ web_state = <<>>
  /\ heap = <<>>
  /\ web_taken = <<>>
  /\ response = <<>>

\* Detector.__init__ (detector.py lines 66-67)
Detector_init(interval) ==
  /\ inference_interval = interval
  /\ frame_count = 0

\* the state after the constructors of main() ran on cfg, with a detector
\* that runs inference on every interval-th frame
ConstructedWith(cfg, interval) ==
  /\ config = cfg
  /\ construction = construct(cfg)
  /\ now = 0
  /\ Detector_init(interval)
  /\ EventDetector_init(cfg.pooping_detection)
  /\ PoopTracker_init(cfg.tracking)
  /\ StateManager_init(cfg.alerts)
  /\ WebServer_init
  /\ sink_errors = <<>>
  /\ uncaught = FALSE
  /\ frame_detections = <<>>
  /\ current_state = <<>>
  /\ iou_bbox1 = <<0, 0, 0, 0>>
  /\ iou_bbox2 = <<0, 0, 0, 0>>
  /\ iou_result = <<>>

\* the state after the constructors of main() ran on cfg
Constructed(cfg) == ConstructedWith(cfg, 1)

DefaultTracking == [iou_threshold |-> <<1, 5>>, stale_threshold |-> 2,
                    cleanup_confirm_frames |-> 1]

DefaultPooping == [stationary_threshold |-> 1, aspect_ratio_threshold |-> <<1, 2>>]

DefaultAlerts == [new_poop |-> TRUE, cleanup |-> TRUE, aged_minutes |-> <<1, 60>>]

\* ------------------------------------------------------------------------
\* Specification of the tracker alone, driven as demo.py drives it
\* ------------------------------------------------------------------------
Init ==
  /\ \E tracking \in TrackingConfigs :
       Constructed([tracking |-> tracking, pooping_detection |-> DefaultPooping,
                    alerts |-> DefaultAlerts])
  /\ transport_faults = {}
  /\ pc = "update"

Update ==
  /\ construction = "ok"
  /\ ~uncaught
  /\ \E f \in Frames : update(f.detections, f.pooping_events)
  /\ UNCHANGED <<configVars, iouVars, eventVars, alertVars, mainVars, webVars>>
  /\ UNCHANGED detVars

Next == Update

Spec == Init /\ [][Next]_vars

\* ------------------------------------------------------------------------
\* Specification of the matching of PoopTracker.update: frames in which
\* detections compete for a deposit and deposits for a detection
\* ------------------------------------------------------------------------
MatchFrames ==
  { Frame(<<>>, <<>>),
    Frame(<<Detection("poop", BoxA)>>, <<>>),
    Frame(<<Detection("poop", BoxA2)>>, <<>>),
    Frame(<<Detection("poop", BoxB), Detection("poop", BoxA)>>, <<>>),
    Frame(<<Detection("poop", BoxA2), Detection("poop", BoxA)>>, <<>>),
    Frame(<<Detection("poop", BoxB), Detection("person", PersonEdge)>>, <<EventPoint>>) }

UpdateMatch ==
  /\ construction = "ok"
  /\ ~uncaught
  /\ \E f \in MatchFrames : update(f.detections, f.pooping_events)
  /\ UNCHANGED <<configVars, iouVars, eventVars, alertVars, mainVars, webVars>>
  /\ UNCHANGED detVars

NextMatch == UpdateMatch

SpecMatch == Init /\ [][NextMatch]_vars

\* ------------------------------------------------------------------------
\* Specification of the tracker with a confirm count at or right above the
\* staleness threshold
\* ------------------------------------------------------------------------
LateConfigs ==
  { tracking \in [iou_threshold : IouThresholds,
                  stale_threshold : 1..MaxStale,
                  cleanup_confirm_frames : 2..(MaxStale + 1)] :
      tracking.cleanup_confirm_frames \in
        {tracking.stale_threshold, tracking.stale_threshold + 1} }

LateFrames ==
  { Frame(<<>>, <<>>),
    Frame(<<Detection("poop", BoxA)>>, <<>>),
    Frame(<<Detection("person", PersonNear)>>, <<>>),
    Frame(<<>>, <<EventPoint>>) }

InitLate ==
  /\ \E tracking \in LateConfigs :
       Constructed([tracking |-> tracking, pooping_detection |-> DefaultPooping,
                    alerts |-> DefaultAlerts])
  /\ transport_faults = {}
  /\ pc = "update"

UpdateLate ==
  /\ construction = "ok"
  /\ ~uncaught
  /\ \E f \in LateFrames : update(f.detections, f.pooping_events)
  /\ UNCHANGED <<configVars, iouVars, eventVars, alertVars, mainVars, webVars>>
  /\ UNCHANGED detVars

NextLate == UpdateLate

SpecLate == InitLate /\ [][NextLate]_vars

\* ------------------------------------------------------------------------
\* Specification of the event detector alone
\* ------------------------------------------------------------------------
DogFrames ==
  { <<>>,
    <<Detection("dog", DogA)>>,
    <<Detection("dog", DogA5)>>,
    <<Detection("dog", DogA6)>>,
    <<Detection("dog", DogTall)>>,
    <<Detection("dog", DogFar), Detection("dog", DogA)>> }

InitEvents ==
  /\ \E pooping \in PoopingConfigs :
       Constructed([tracking |-> DefaultTracking, pooping_detection |-> pooping,
                    alerts |-> DefaultAlerts])
  /\ transport_faults = {}
  /\ pc = "process"

\* one call event_detector.process(detections), a second after the last
Process ==
  /\ construction = "ok"
  /\ now < MaxTime
  /\ \E detections \in DogFrames :
       LET r == process(detections, now + 1)
       IN  /\ returned_events' = r.pooping_events
           /\ dog_tracks' = r.dog_tracks
           /\ next_track_id' = r.next_track_id
  /\ now' = now + 1
  /\ UNCHANGED <<stationary_threshold, aspect_ratio_threshold, configVars, iouVars, trackerVars,
                 sinkVars, alertVars, mainVars, webVars>>
  /\ UNCHANGED detVars

NextEvents == Process

SpecEvents == InitEvents /\ [][NextEvents]_vars

\* ------------------------------------------------------------------------
\* Specification of the tracks of the event detector: frames in which
\* detections compete for a track and tracks for a detection, one of them
\* at the match gate exactly
\* ------------------------------------------------------------------------
TrackFrames ==
  { <<>>,
    <<Detection("dog", DogA)>>,
    <<Detection("dog", Dog100)>>,
    <<Detection("dog", Dog60)>>,
    <<Detection("dog", Dog60), Detection("dog", DogA5)>> }

InitTracks ==
  /\ \E pooping \in {DefaultPooping, OpenPooping} :
       Constructed([tracking |-> DefaultTracking, pooping_detection |-> pooping,
                    alerts |-> DefaultAlerts])
  /\ transport_faults = {}
  /\ pc = "process"

\* one call event_detector.process(detections), a second after the last
ProcessTracks ==
  /\ construction = "ok"
  /\ now < MaxTime
  /\ \E detections \in TrackFrames :
       LET r == process(detections, now + 1)
       IN  /\ returned_events' = r.pooping_events
           /\ dog_tracks' = r.dog_tracks
           /\ next_track_id' = r.next_track_id
  /\ now' = now + 1
  /\ UNCHANGED <<stationary_threshold, aspect_ratio_threshold, configVars, iouVars, trackerVars,
                 sinkVars, alertVars, mainVars, webVars>>
  /\ UNCHANGED detVars

NextTracks == ProcessTracks

SpecTracks == InitTracks /\ [][NextTracks]_vars

\* ------------------------------------------------------------------------
\* Specification of a long track: a dog stands still for StandingTime calls,
\* then the frames vary for MaxTime more calls, so that the history of its
\* track reaches its capacity and goes on
\* ------------------------------------------------------------------------
HistoryFrames ==
  { <<>>,
    <<Detection("dog", DogA)>>,
    <<Detection("dog", DogA5)>> }

InitHistory ==
  /\ Constructed([tracking |-> DefaultTracking, pooping_detection |-> DefaultPooping,
                  alerts |-> DefaultAlerts])
  /\ transport_faults = {}
  /\ pc = "process"

\* one call event_detector.process on a frame with the dog where it was
Standing ==
  /\ construction = "ok"
  /\ now < StandingTime
  /\ LET r == process(<<Detection("dog", DogA)>>, now + 1)
     IN  /\ returned_events' = r.pooping_events
         /\ dog_tracks' = r.dog_tracks
         /\ next_track_id' = r.next_track_id
  /\ now' = now + 1
  /\ UNCHANGED <<stationary_threshold, aspect_ratio_threshold, configVars, iouVars, trackerVars,
                 sinkVars, alertVars, mainVars, webVars>>
  /\ UNCHANGED detVars

\* one call event_detector.process on any of the frames
ProcessLong ==
  /\ construction = "ok"
  /\ now >= StandingTime
  /\ now < StandingTime + MaxTime
  /\ \E detections \in HistoryFrames :
       LET r == process(detections, now + 1)
       IN  /\ returned_events' = r.pooping_events
           /\ dog_tracks' = r.dog_tracks
           /\ next_track_id' = r.next_track_id
  /\ now' = now + 1
  /\ UNCHANGED <<stationary_threshold, aspect_ratio_threshold, configVars, iouVars, trackerVars,
                 sinkVars, alertVars, mainVars, webVars>>
  /\ UNCHANGED detVars

NextHistory == Standing \/ ProcessLong

SpecHistory == InitHistory /\ [][NextHistory]_vars

\* ------------------------------------------------------------------------
\* Specification of construction: main() on configurations that lack a key
\* or carry an out-of-range threshold, then the tracker driven as above
\* ------------------------------------------------------------------------
\* cfg without one key of one section
Without(cfg, section, key) ==
  [cfg EXCEPT ![section] = [k \in DOMAIN cfg[section] \ {key} |-> cfg[section][k]]]

DefaultConfig == [tracking |-> DefaultTracking, pooping_detection |-> DefaultPooping,
                  alerts |-> DefaultAlerts]

ConfigsUnderTest ==
  { DefaultConfig,
    Without(DefaultConfig, "tracking", "stale_threshold"),
    Without(DefaultConfig, "pooping_detection", "aspect_ratio_threshold"),
    Without(DefaultConfig, "alerts", "aged_minutes"),
    [DefaultConfig EXCEPT !.tracking.iou_threshold = <<3, 2>>],
    [DefaultConfig EXCEPT !.tracking.iou_threshold = <<0, 1>>],
    [DefaultConfig EXCEPT !.tracking.cleanup_confirm_frames = 0] }

InitConfig ==
  /\ \E cfg \in ConfigsUnderTest : Constructed(cfg)
  /\ transport_faults = {}
  /\ pc = "update"

NextConfig == Update

SpecConfig == InitConfig /\ [][NextConfig]_vars

\* ------------------------------------------------------------------------
\* Specification of the tracker with a sink whose transport fails
\* ------------------------------------------------------------------------
\* the transport fails on the same calls of every update of a run
InitSink ==
  /\ Constructed(DefaultConfig)
  /\ transport_faults \in SUBSET (1..MaxFaults)
  /\ pc = "update"

NextSink == Update

SpecSink == InitSink /\ [][NextSink]_vars

\* ------------------------------------------------------------------------
\* Specification of the tracker followed by the alert aggregator: update,
\* get_state and StateManager.update in turn, as in the loop of main()
\* ------------------------------------------------------------------------
InitAlerts ==
  /\ \E alerting \in AlertConfigs :
       Constructed([tracking |-> DefaultTracking, pooping_detection |-> DefaultPooping,
                    alerts |-> alerting])
  /\ transport_faults = {}
  /\ pc = "update"

\* main.py line 65
TrackerUpdate ==
  /\ pc = "update"
  /\ ~uncaught
  /\ \E f \in Frames : update(f.detections, f.pooping_events)
  /\ pc' = "alerts"
  /\ UNCHANGED <<configVars, iouVars, eventVars, alertVars, frame_detections, current_state, webVars>>
  /\ UNCHANGED detVars

\* main.py lines 68-71: state_manager.update(poop_tracker.get_state())
StateUpdate ==
  /\ pc = "alerts"
  /\ LET r == state_manager_update(get_state, now)
     IN  /\ known_poop_ids' = r.known_poop_ids
         /\ last_state' = r.last_state
         /\ alerts' = alerts \o r.alerts
  /\ pc' = "update"
  /\ UNCHANGED <<alert_new_poop, alert_cleanup, aged_minutes, trackerVars, now, configVars, iouVars,
                 eventVars, sinkVars, frame_detections, current_state, webVars>>
  /\ UNCHANGED detVars

NextAlerts == TrackerUpdate \/ StateUpdate

SpecAlerts == InitAlerts /\ [][NextAlerts]_vars

\* ------------------------------------------------------------------------
\* Specification of main(): the loop body step by step, and the server
\* thread answering /api/status at any moment
\* ------------------------------------------------------------------------
\* what detector.detect returns for a frame
MainFrames ==
  { <<>>,
    <<Detection("poop", BoxA)>>,
    <<Detection("poop", BoxA2)>>,
    <<Detection("person", PersonNear)>>,
    <<Detection("dog", DogA)>> }

\* the statement of the loop body main() runs after `step` (main.py lines
\* 57-76 in program order, the next iteration after the last one), with
\* the call of get_state left out
next_statement_without_get_state(step) ==
  CASE step = "detect" -> "process"
    [] step = "process" -> "update"
    [] step = "update" -> "alerts"
    [] step = "get_state" -> "alerts"
    [] step = "alerts" -> "publish"
    [] step = "publish" -> "detect"

next_statement(step) ==
  CASE step = "detect" -> "process"
    [] step = "process" -> "update"
    [] step = "update" -> "get_state"
    [] step = "get_state" -> "alerts"
    [] step = "alerts" -> "publish"
    [] step = "publish" -> "detect"

InitMain ==
  /\ Constructed(DefaultConfig)
  /\ transport_faults = {}
  /\ pc = "detect"

\* Detector.detect on every frame: no frame is skipped
detect_every_frame(count, interval, found) == found

\* Detector.detect (detector.py lines 83-110) on the frame_count-th frame:
\* `found` is what the model finds in the frame
detect(count, interval, found) == IF count % interval # 0 THEN <<>> ELSE found

\* main.py lines 57-59: the next frame and its detections
Detect ==
  /\ pc = "detect"
  /\ construction = "ok"
  /\ ~uncaught
  /\ now < MaxTime
  /\ frame_count' = frame_count + 1
  /\ \E frame \in MainFrames :
       frame_detections' = detect(frame_count + 1, inference_interval, frame)
  /\ pc' = next_statement(pc)
  /\ UNCHANGED <<trackerVars, now, configVars, iouVars, eventVars, sinkVars, alertVars,
                 current_state, webVars, inference_interval>>

\* main.py line 62
ProcessFrame ==
  /\ pc = "process"
  /\ LET r == process(frame_detections, now + 1)
     IN  /\ returned_events' = r.pooping_events
         /\ dog_tracks' = r.dog_tracks
         /\ next_track_id' = r.next_track_id
  /\ pc' = next_statement(pc)
  /\ UNCHANGED <<stationary_threshold, aspect_ratio_threshold, trackerVars, now, configVars, iouVars,
                 sinkVars, alertVars, frame_detections, current_state, webVars>>
  /\ UNCHANGED detVars

\* main.py line 65; the objects the dicts refer to are written in place
UpdateFrame ==
  /\ pc = "update"
  /\ update(frame_detections, returned_events)
  /\ heap' = written(heap, after_create(frame_detections, returned_events, now + 1).poops)
  /\ pc' = next_statement(pc)
  /\ UNCHANGED <<configVars, iouVars, eventVars, alertVars, frame_detections, current_state,
                 web_state, web_taken, response>>
  /\ UNCHANGED detVars

\* main.py line 68
GetState ==
  /\ pc = "get_state"
  /\ current_state' = get_state_refs
  /\ heap' = [id \in refs_of(get_state_refs) \cup refs_of(web_state) |-> object(id)]
  /\ pc' = next_statement(pc)
  /\ UNCHANGED <<trackerVars, now, configVars, iouVars, eventVars, sinkVars, alertVars,
                 frame_detections, web_state, web_taken, response>>
  /\ UNCHANGED detVars

\* main.py line 71
AlertsUpdate ==
  /\ pc = "alerts"
  /\ LET r == state_manager_update(followed(current_state, heap), now)
     IN  /\ known_poop_ids' = r.known_poop_ids
         /\ last_state' = r.last_state
         /\ alerts' = alerts \o r.alerts
  /\ pc' = next_statement(pc)
  /\ UNCHANGED <<alert_new_poop, alert_cleanup, aged_minutes, trackerVars, now, configVars, iouVars,
                 eventVars, sinkVars, frame_detections, current_state, webVars>>
  /\ UNCHANGED detVars

\* main.py lines 74-76: annotate reads the dict, update_state stores it
Publish ==
  /\ pc = "publish"
  /\ web_state' = current_state
  /\ heap' = [id \in refs_of(current_state) |-> heap[id]]
  /\ web_taken' = [id \in refs_of(current_state) |-> heap[id]]
  /\ pc' = next_statement(pc)
  /\ UNCHANGED <<trackerVars, now, configVars, iouVars, eventVars, sinkVars, alertVars,
                 frame_detections, current_state, response>>
  /\ UNCHANGED detVars

\* the server thread: GET /api/status (web_server.py lines 56-59)
Read ==
  /\ construction = "ok"
  /\ response' = format_status(web_state, heap, now)
  /\ UNCHANGED <<trackerVars, now, configVars, iouVars, eventVars, sinkVars, alertVars, mainVars,
                 web_state, heap, web_taken>>
  /\ UNCHANGED detVars

NextMain ==
  Detect \/ ProcessFrame \/ UpdateFrame \/ GetState \/ AlertsUpdate \/ Publish \/ Read

SpecMain == InitMain /\ [][NextMain]_vars

\* ------------------------------------------------------------------------
\* Specification of main() with a detector that skips frames: the loop as
\* above, inference_interval from 1 to MaxInterval, the largest staleness
\* threshold and every confirm count
\* ------------------------------------------------------------------------
InitSkip ==
  /\ \E interval \in 1..MaxInterval, confirm \in 1..MaxConfirm :
       ConstructedWith([tracking |-> [iou_threshold |-> <<1, 5>>,
                                      stale_threshold |-> MaxStale,
                                      cleanup_confirm_frames |-> confirm],
                        pooping_detection |-> DefaultPooping,
                        alerts |-> DefaultAlerts],
                       interval)
  /\ transport_faults = {}
  /\ pc = "detect"

NextSkip ==
  Detect \/ ProcessFrame \/ UpdateFrame \/ GetState \/ AlertsUpdate \/ Publish \/ Read

SpecSkip == InitSkip /\ [][NextSkip]_vars

\* ------------------------------------------------------------------------
\* Specification of _calculate_iou alone: one call on each pair of boxes
\* with integer coordinates in 0..MaxCoord
\* ------------------------------------------------------------------------
IouBoxes == (0..MaxCoord) \X (0..MaxCoord) \X (0..MaxCoord) \X (0..MaxCoord)

InitIou ==
  /\ config = DefaultConfig
  /\ construction = construct(DefaultConfig)
  /\ now = 0
  /\ EventDetector_init(DefaultPooping)
  /\ PoopTracker_init(DefaultTracking)
  /\ StateManager_init(DefaultAlerts)
  /\ WebServer_init
  /\ sink_errors = <<>>
  /\ uncaught = FALSE
  /\ frame_detections = <<>>
  /\ current_state = <<>>
  /\ transport_faults = {}
  /\ pc = "update"
  /\ Detector_init(1)
  /\ iou_bbox1 \in IouBoxes
  /\ iou_bbox2 \in IouBoxes
  /\ iou_result = <<>>

\* the call self._calculate_iou(bbox1, bbox2) returns
CalculateIou ==
  /\ iou_result = <<>>
  /\ iou_result' = calculate_iou(iou_bbox1, iou_bbox2)
  /\ UNCHANGED <<trackerVars, now, configVars, eventVars, sinkVars, alertVars, mainVars,
                 webVars, iou_bbox1, iou_bbox2, detVars>>

NextIou == CalculateIou

SpecIou == InitIou /\ [][NextIou]_vars

\* ------------------------------------------------------------------------
\* Vocabulary of the properties
\* ------------------------------------------------------------------------
TypeOK ==
  /\ cleaned_count \in Nat
  /\ total_deposits \in Nat
  /\ next_id \in Nat
  /\ now \in 0..MaxTime
  /\ \A k \in 1..Len(active_poops) :
       /\ active_poops[k].status \in {"pending", "active"}
       /\ active_poops[k].id \in 0..(next_id - 1)

Range(s) == {s[i] : i \in 1..Len(s)}

Ids(poops) == {poops[k].id : k \in 1..Len(poops)}

\* the notifications of kind `kind` in a sequence of notifications
NotesOf(kind, notes) == SelectSeq(notes, LAMBDA n : n.kind = kind)

\* the ids the notifications of kind `kind` carry
NotedIds(kind, notes) == {n.id : n \in Range(NotesOf(kind, notes))}

\* the notifications emitted by the step
NewNotes == SubSeq(notifications', Len(notifications) + 1, Len(notifications'))

\* some person detection's center is within the proximity radius of a point
PersonWithin(location, detections) ==
  \E i \in 1..Len(detections) :
    /\ detections[i].class_name = "person"
    /\ LET b == detections[i].bbox
           dx == location[1] - (b[1] + b[3])
           dy == location[2] - (b[2] + b[4])
       IN  dx * dx + dy * dy < 4 * 100 * 100

\* the step is the call update(f.detections, f.pooping_events)
IsUpdate(f) == update(f.detections, f.pooping_events)

\* the deposits as the matching loop of that call leaves them (before the
\* creation loops and the prune), index by index
Matched(f) == after_match(f.detections, now + 1)

\* the deposits of that call right before the prune
BeforePrune(f) == after_create(f.detections, f.pooping_events, now + 1).poops

\* ------------------------------------------------------------------------
\* C1  Across update calls a deposit's status only changes pending->active
\*     or active->cleaned: never pending->cleaned, never backward.
\*     (Stated as the claim; the code violates it.)
\* ------------------------------------------------------------------------
C1_StatusForwardOnly ==
  [][\A f \in Frames : IsUpdate(f) =>
       \A k \in 1..Len(active_poops) :
         LET before == active_poops[k].status
             after == Matched(f).poops[k].status
         IN  \/ after = before
             \/ before = "pending" /\ after = "active"
             \/ before = "active" /\ after = "cleaned"]_vars

\* ------------------------------------------------------------------------
\* C2  A deposit becomes cleaned exactly on the update call in which its
\*     cleanup-candidate counter first reaches cleanup_confirm_frames.  The
\*     counter grows by one on a call in which the deposit is unmatched and
\*     some person's center is within 100 px of its location, and every other
\*     call (a match, or no person nearby) sets it back to 0, so the calls
\*     that count are consecutive.
\* ------------------------------------------------------------------------
C2_CleanupStreak ==
  [][\A f \in Frames : IsUpdate(f) =>
       \A k \in 1..Len(active_poops) :
         LET p == active_poops[k]
             q == Matched(f).poops[k]
             matched == q.missing_frames = 0
             streak == ~matched /\ PersonWithin(p.location, f.detections)
             cleaned == p.id \in NotedIds("poop_cleaned", NewNotes)
         IN  /\ q.id = p.id
             /\ q.cleanup_candidate_frames =
                  IF streak THEN p.cleanup_candidate_frames + 1 ELSE 0
             /\ cleaned <=> (streak /\ p.cleanup_candidate_frames + 1 = cleanup_confirm_frames)
             /\ cleaned <=> q.status = "cleaned"
             /\ p.cleanup_candidate_frames < cleanup_confirm_frames
             /\ ~cleaned /\ q.missing_frames < stale_threshold => q \in Range(active_poops')]_vars

\* a detected deposit was cleaned after a streak of two calls
C2_Witness ==
  /\ cleanup_confirm_frames = 2
  /\ NotedIds("poop_cleaned", notifications) \cap NotedIds("poop_detected", notifications) # {}

\* ------------------------------------------------------------------------
\* C3  "poop_cleaned" is emitted at most once per deposit id over the whole
\*     run, on the update call that sets the deposit's status to cleaned,
\*     and that call adds exactly 1 to cleaned_count for each such deposit.
\* ------------------------------------------------------------------------
C3_CleanedOnce ==
  [][\A f \in Frames : IsUpdate(f) =>
       LET new == NotesOf("poop_cleaned", NewNotes)
           set == {k \in 1..Len(active_poops) :
                     /\ active_poops[k].status # "cleaned"
                     /\ Matched(f).poops[k].status = "cleaned"}
       IN  /\ \A i, j \in 1..Len(new) : new[i].id = new[j].id => i = j
           /\ NotedIds("poop_cleaned", NewNotes) = {active_poops[k].id : k \in set}
           /\ NotedIds("poop_cleaned", NewNotes) \cap NotedIds("poop_cleaned", notifications) = {}
           /\ NotedIds("poop_cleaned", NewNotes) \cap Ids(active_poops') = {}
           /\ Len(new) = Cardinality(set)
           /\ cleaned_count' = cleaned_count + Cardinality(set)]_vars

\* two deposits have been cleaned, each with its notification
C3_Witness ==
  /\ cleaned_count = 2
  /\ Cardinality(NotedIds("poop_cleaned", notifications)) = 2

\* ------------------------------------------------------------------------
\* C5  A deposit created as pending from a candidate event point is matched
\*     by a later deposit-class detection at that point: it becomes active
\*     and "poop_confirmed" is emitted.
\*     (Stated as the claim; the code violates it.)
\* ------------------------------------------------------------------------
C5_PendingIsConfirmed ==
  [][\A f \in Frames : IsUpdate(f) =>
       \A k \in 1..Len(active_poops) :
         LET p == active_poops[k]
         IN  (/\ p.status = "pending"
              /\ \E i \in 1..Len(f.detections) :
                   /\ f.detections[i].class_name = "poop"
                   /\ center(f.detections[i].bbox) = p.location)
             => /\ p.id \in NotedIds("poop_confirmed", NewNotes)
                /\ \E j \in 1..Len(active_poops') :
                     /\ active_poops'[j].id = p.id
                     /\ active_poops'[j].status = "active"]_vars

\* what the code does instead: no deposit created pending is ever promoted
C5_NeverConfirmed ==
  /\ NotedIds("poop_confirmed", notifications) = {}
  /\ \A k \in 1..Len(active_poops) :
       active_poops[k].status = "active"
         => active_poops[k].id \in NotedIds("poop_detected", notifications)

\* ------------------------------------------------------------------------
\* C6  Every deposit-class detection the matching step leaves unclaimed
\*     creates, in the same call, exactly one new deposit with status
\*     active, adds exactly 1 to total_deposits and emits one
\*     "poop_detected" carrying the new id, the location and the box.
\* ------------------------------------------------------------------------
\* the unclaimed deposit-class detections of the call, in frame order
Unclaimed(f) ==
  LET pd == poop_detections_of(f.detections)
      left == SelectSeq([i \in 1..Len(pd) |-> i],
                        LAMBDA i : i \notin Matched(f).matched_indices)
  IN  [j \in 1..Len(left) |-> pd[left[j]]]

C6_UnclaimedCreatesActive ==
  [][\A f \in Frames : IsUpdate(f) =>
       LET un == Unclaimed(f)
           new == NotesOf("poop_detected", NewNotes)
       IN  /\ total_deposits' = total_deposits + Len(un)
           /\ Len(new) = Len(un)
           /\ \A i, j \in 1..Len(new) : new[i].id = new[j].id => i = j
           /\ \A j \in 1..Len(un) :
                /\ new[j].id \in next_id..(next_id' - 1)
                /\ new[j].bbox = un[j].bbox
                /\ new[j].location = <<un[j].bbox[1] + un[j].bbox[3], un[j].bbox[2] + un[j].bbox[4]>>
                /\ Cardinality({k \in 1..Len(active_poops') :
                                  active_poops'[k].id = new[j].id}) = 1
                /\ \A k \in 1..Len(active_poops') :
                     active_poops'[k].id = new[j].id =>
                       /\ active_poops'[k].status = "active"
                       /\ active_poops'[k].bbox = new[j].bbox
                       /\ active_poops'[k].location = new[j].location
           /\ Cardinality({k \in 1..Len(active_poops') :
                             /\ active_poops'[k].id >= next_id
                             /\ active_poops'[k].status = "active"}) = Len(un)]_vars

\* two detections of one frame, one of them next to a live deposit, have
\* each created an active deposit
C6_Witness ==
  /\ total_deposits >= 2
  /\ \E j, k \in 1..Len(active_poops) :
       /\ active_poops[j].status = "active" /\ active_poops[j].bbox = BoxB
       /\ active_poops[k].status = "active" /\ active_poops[k].bbox = BoxA2
       /\ active_poops[j].first_seen > active_poops[k].first_seen

\* ------------------------------------------------------------------------
\* C7  Every candidate event point passed to update creates exactly one new
\*     deposit with status pending at that point, whether or not a pending
\*     deposit already sits there; the event points change neither
\*     total_deposits nor cleaned_count nor the notifications (these are
\*     what the same call without event points produces).
\* ------------------------------------------------------------------------
C7_EventCreatesPending ==
  [][\A f \in Frames : IsUpdate(f) =>
       LET evs == f.pooping_events
           new == SelectSeq(active_poops', LAMBDA p : p.id >= next_id /\ p.status = "pending")
           bare == after_create(f.detections, <<>>, now + 1)
       IN  /\ Len(new) = Len(evs)
           /\ \A i, j \in 1..Len(new) : new[i].id = new[j].id => i = j
           /\ \A j \in 1..Len(new) :
                /\ new[j].location = evs[j]
                /\ new[j].id < next_id'
                /\ new[j].id \notin {NewNotes[i].id : i \in 1..Len(NewNotes)}
           /\ next_id' = bare.next_id + Len(evs)
           /\ total_deposits' = bare.total_deposits
           /\ cleaned_count' = bare.cleaned_count
           /\ NewNotes = bare.notes
           /\ f.detections = <<>> =>
                /\ total_deposits' = total_deposits
                /\ cleaned_count' = cleaned_count
                /\ notifications' = notifications]_vars

\* three pending deposits at one location, made by two calls
C7_Witness ==
  \E i, j, k \in 1..Len(active_poops) :
    /\ i < j /\ j < k
    /\ active_poops[i].status = "pending"
    /\ active_poops[j].status = "pending"
    /\ active_poops[k].status = "pending"
    /\ active_poops[i].location = active_poops[j].location
    /\ active_poops[j].location = active_poops[k].location
    /\ active_poops[i].first_seen < active_poops[j].first_seen
    /\ active_poops[j].first_seen = active_poops[k].first_seen

\* ------------------------------------------------------------------------
\* C8  A deposit removed from the live set for staleness (removed by a call
\*     that did not set it to cleaned) is absent from the next snapshot, no
\*     "poop_cleaned" was ever emitted for its id, and cleaned_count was not
\*     incremented for it; its id never comes back.
\* ------------------------------------------------------------------------
C8_StaleIsSilent ==
  [][\A f \in Frames : IsUpdate(f) =>
       /\ \A k \in 1..Len(active_poops) :
            LET p == active_poops[k]
                q == Matched(f).poops[k]
            IN  (p.id \notin Ids(active_poops') /\ ~(p.status # "cleaned" /\ q.status = "cleaned"))
                => /\ q.missing_frames >= stale_threshold
                   /\ p.id \notin NotedIds("poop_cleaned", notifications')
                   /\ p.id \notin Ids(get_state.active_poops') \cup Ids(get_state.pending_poops')
       /\ cleaned_count' - cleaned_count =
            Cardinality({k \in 1..Len(active_poops) :
                           /\ active_poops[k].status # "cleaned"
                           /\ Matched(f).poops[k].status = "cleaned"})
       /\ NotedIds("poop_cleaned", NewNotes) \subseteq Ids(active_poops)
       /\ Ids(active_poops') \subseteq Ids(active_poops) \cup next_id..(next_id' - 1)]_vars

\* a deposit is gone from the live set and no "poop_cleaned" carries its id
C8_Witness ==
  \E id \in 0..(next_id - 1) :
    /\ id \notin Ids(active_poops)
    /\ id \notin NotedIds("poop_cleaned", notifications)
    /\ id \in NotedIds("poop_detected", notifications)

C10_MatchRefreshes ==
  [][\A f \in Frames : IsUpdate(f) =>
       LET pd == poop_detections_of(f.detections)
           m == Matched(f)
           hit == {k \in 1..Len(active_poops) : m.poops[k].missing_frames = 0}
       IN  /\ \A k \in hit :
                LET p == active_poops[k]
                    q == m.poops[k]
                IN  /\ q.id = p.id
                    /\ q.first_seen = p.first_seen
                    /\ q.last_seen = now'
                    /\ q.missing_frames = 0
                    /\ q.cleanup_candidate_frames = 0
                    /\ \E i \in m.matched_indices :
                         /\ q.bbox = pd[i].bbox
                         /\ q.location = <<pd[i].bbox[1] + pd[i].bbox[3], pd[i].bbox[2] + pd[i].bbox[4]>>
                    /\ Cardinality({j \in 1..Len(active_poops') : active_poops'[j] = q}) = 1
           /\ Cardinality(m.matched_indices) = Cardinality(hit)
           /\ total_deposits' = total_deposits + Len(pd) - Cardinality(hit)
           /\ Cardinality({j \in 1..Len(active_poops') :
                             /\ active_poops'[j].id >= next_id
                             /\ active_poops'[j].status = "active"})
                = Len(pd) - Cardinality(hit)]_vars

\* a deposit detected at BoxA lives on at BoxA2 under the id it was given
C10_Witness ==
  \E k \in 1..Len(active_poops) :
    /\ active_poops[k].bbox = BoxA2
    /\ active_poops[k].first_seen < active_poops[k].last_seen
    /\ active_poops[k].missing_frames = 0
    /\ \E i \in 1..Len(notifications) :
         /\ notifications[i].kind = "poop_detected"
         /\ notifications[i].id = active_poops[k].id
         /\ notifications[i].bbox = BoxA

\* ------------------------------------------------------------------------
\* C19 An update call without any detection and without event points is
\*     "nothing observed": every live deposit is handled as unmatched with
\*     no person nearby (missing-frame counter +1, cleanup-candidate counter
\*     0), no deposit is created, nothing is notified, and total_deposits
\*     and cleaned_count stay as they are.
\* ------------------------------------------------------------------------
C19_EmptyFrame ==
  [][IsUpdate(Frame(<<>>, <<>>)) =>
       LET missed == [k \in 1..Len(active_poops) |->
                        [active_poops[k] EXCEPT !.missing_frames = @ + 1,
                                                !.cleanup_candidate_frames = 0]]
       IN  /\ active_poops' = SelectSeq(missed, LAMBDA q : q.missing_frames < stale_threshold)
           /\ next_id' = next_id
           /\ notifications' = notifications
           /\ total_deposits' = total_deposits
           /\ cleaned_count' = cleaned_count]_vars

\* a deposit that had a person next to it has since been missed twice
C19_Witness ==
  /\ cleanup_confirm_frames = 2
  /\ \E k \in 1..Len(active_poops) :
       /\ active_poops[k].status = "active"
       /\ active_poops[k].missing_frames = 2
       /\ active_poops[k].cleanup_candidate_frames = 0
       /\ active_poops[k].first_seen = now - 2

\* ------------------------------------------------------------------------
\* Vocabulary of the event detector's properties
\* ------------------------------------------------------------------------
\* the step is the call process(detections)
IsProcess(detections) ==
  LET r == process(detections, now + 1)
  IN  /\ now' = now + 1
      /\ returned_events' = r.pooping_events
      /\ dog_tracks' = r.dog_tracks
      /\ next_track_id' = r.next_track_id

\* the tracks of that call when the gates are evaluated
Tracked(detections) == update_tracks(dog_detections_of(detections), now + 1).tracks

\* the three gates, written on the samples of a track: duration in seconds,
\* average displacement in half pixels per step, average height/width
Duration(track) ==
  track.positions[Len(track.positions)].timestamp - track.positions[1].timestamp

Qualifies(track) ==
  LET n == Len(track.positions)
  IN  /\ n >= 2
      /\ Duration(track) >= stationary_threshold
      /\ total_movement(track.positions, 2) <= 2 * MovementThreshold * (n - 1)
      /\ ~RatGT(get_average_aspect_ratio(track), aspect_ratio_threshold)

\* bottom center of the most recent box, half pixels
BottomCenter(track) ==
  LET bbox == track.positions[Len(track.positions)].bbox
  IN  <<bbox[1] + bbox[3], 2 * bbox[4]>>

\* ------------------------------------------------------------------------
\* C13 process() returns one coordinate per track that satisfies all three
\*     gates (duration >= stationary_threshold, average displacement <= 5.0,
\*     average aspect ratio <= aspect_ratio_threshold) and none for a track
\*     that fails one; the coordinate is the bottom center of the track's
\*     most recent box; evaluating the gates leaves the tracks as
\*     _update_tracks left them (only stale tracks are dropped afterwards).
\* ------------------------------------------------------------------------
C13_GatesDecideEvents ==
  [][\A detections \in DogFrames :
       IsProcess(detections) =>
         LET tracks == Tracked(detections)
             qualifying == SelectSeq(tracks, Qualifies)
         IN  /\ returned_events' = [j \in 1..Len(qualifying) |-> BottomCenter(qualifying[j])]
             /\ dog_tracks' = SelectSeq(tracks, LAMBDA track : ~is_stale(track, now + 1))]_vars

\* a track sits on every boundary at once (duration = threshold, average
\* displacement = 5 px, aspect ratio = threshold) and was reported, next to a
\* track that was not
C13_Witness ==
  /\ Len(dog_tracks) >= 2
  /\ \E k \in 1..Len(dog_tracks) :
       /\ Len(dog_tracks[k].positions) >= 2
       /\ Duration(dog_tracks[k]) = stationary_threshold
       /\ total_movement(dog_tracks[k].positions, 2)
            = 2 * MovementThreshold * (Len(dog_tracks[k].positions) - 1)
       /\ get_average_aspect_ratio(dog_tracks[k])[1] * aspect_ratio_threshold[2]
            = aspect_ratio_threshold[1] * get_average_aspect_ratio(dog_tracks[k])[2]
       /\ returned_events = <<BottomCenter(dog_tracks[k])>>

\* ------------------------------------------------------------------------
\* C20 Constructing the tracker, the event detector or the alert aggregator
\*     with a missing or out-of-range threshold fails with a
\*     ConfigurationError at construction, before any cycle runs.
\*     (Stated as the claim; the code violates it: a missing key raises
\*     KeyError and an out-of-range value is accepted.)
\* ------------------------------------------------------------------------
\* every key is there and every threshold is in range: the IoU threshold in
\* (0, 1], the frame counts at least 1, the other thresholds positive
ValidConfig(cfg) ==
  /\ construct(cfg) = "ok"
  /\ cfg.tracking.iou_threshold[1] > 0
  /\ cfg.tracking.iou_threshold[1] <= cfg.tracking.iou_threshold[2]
  /\ cfg.tracking.stale_threshold >= 1
  /\ cfg.tracking.cleanup_confirm_frames >= 1
  /\ cfg.pooping_detection.stationary_threshold > 0
  /\ cfg.pooping_detection.aspect_ratio_threshold[1] > 0
  /\ cfg.alerts.aged_minutes[1] > 0

C20_InvalidConfigRejected ==
  ~ValidConfig(config) => construction = "ConfigurationError" /\ now = 0

\* ------------------------------------------------------------------------
\* C18 If the registered sink fails while handling one notification inside
\*     update, the rest of that update still runs: the remaining deposits
\*     are matched or counted, new and pending deposits are created, the
\*     prune happens and the later notifications of the call are emitted,
\*     i.e. the call ends as the same call with a sound transport ends.
\* ------------------------------------------------------------------------
\* the loops of that call on a transport that does not fail
Unfailing(f) ==
  pending_loop(1,
    create_loop(1,
      match_loop(1, [start_acc EXCEPT !.failing = {}],
                 poop_detections_of(f.detections), person_detections_of(f.detections),
                 iou_threshold, cleanup_confirm_frames, now + 1),
      poop_detections_of(f.detections), now + 1),
    f.pooping_events, now + 1)

C18_SinkFailureIsolated ==
  [][\A f \in Frames :
       IsUpdate(f) =>
         LET r == Unfailing(f)
         IN  /\ active_poops' = prune(r.poops, stale_threshold)
             /\ cleaned_count' = r.cleaned_count
             /\ total_deposits' = r.total_deposits
             /\ next_id' = r.next_id
             /\ notifications' = notifications \o r.notes
             /\ uncaught' = FALSE]_vars

\* the sink fails on the first notification of every call; the second call
\* cleaned the first deposit and the sink failed on that notification; the
\* same call still created the deposit of its detection, notified it and
\* pruned the cleaned one
C18_Witness ==
  /\ transport_faults = {1}
  /\ now = 2
  /\ Len(notifications) = 3
  /\ sink_errors = <<notifications[1], notifications[2]>>
  /\ notifications[2].kind = "poop_cleaned"
  /\ notifications[3].kind = "poop_detected"
  /\ Len(active_poops) = 1
  /\ active_poops[1].id = notifications[3].id
  /\ active_poops[1].first_seen = 2

\* ------------------------------------------------------------------------
\* Vocabulary of the alert aggregator's properties
\* ------------------------------------------------------------------------
\* the alerts raised by the step
NewAlerts == SubSeq(alerts', Len(alerts) + 1, Len(alerts'))

\* how many alerts of a sequence are Alert(kind, subject)
AlertCount(raised, kind, subject) ==
  Cardinality({k \in 1..Len(raised) : raised[k] = Alert(kind, subject)})

\* the alerts of one kind in a sequence
AlertsOf(raised, kind) == SelectSeq(raised, LAMBDA a : a.kind = kind)

\* ------------------------------------------------------------------------
\* C15 (as claimed) With the new-deposit alert on, StateManager.update emits
\*     exactly one "new poop" alert for each deposit id present in the
\*     current snapshot and absent from the previously-seen id set, and none
\*     for the others; with it off, none.  The code looks at the snapshot's
\*     active list only, so a pending deposit of the snapshot violates this.
\* ------------------------------------------------------------------------
C15_AlertPerSnapshotId ==
  [][StateUpdate =>
       \A id \in 0..next_id :
         AlertCount(NewAlerts, "new_poop", id)
           = IF /\ alert_new_poop
                /\ id \in Ids(get_state.active_poops) \cup Ids(get_state.pending_poops)
                /\ id \notin known_poop_ids
             THEN 1 ELSE 0]_vars

\* ------------------------------------------------------------------------
\* C15 (amended) With the new-deposit alert on, StateManager.update emits
\*     exactly one "new poop" alert for each deposit id present in the
\*     ACTIVE list of the current snapshot and absent from the previously
\*     seen id set, adds those ids to the set, and emits none for any other
\*     id (seen before, or pending); with it off, none.
\* ------------------------------------------------------------------------
C15_AlertPerActiveId ==
  [][StateUpdate =>
       /\ \A id \in 0..next_id :
            AlertCount(NewAlerts, "new_poop", id)
              = IF /\ alert_new_poop
                   /\ id \in Ids(get_state.active_poops)
                   /\ id \notin known_poop_ids
                THEN 1 ELSE 0
       /\ known_poop_ids' = known_poop_ids \cup
            {a.subject : a \in Range(AlertsOf(NewAlerts, "new_poop"))}]_vars

\* an active deposit went through two snapshots and was alerted once, while
\* a pending deposit of the last snapshot was not alerted
C15_Witness ==
  /\ alert_new_poop
  /\ pc = "update"
  /\ \E k \in 1..Len(active_poops) :
       /\ active_poops[k].status = "active"
       /\ active_poops[k].first_seen < now
       /\ AlertCount(alerts, "new_poop", active_poops[k].id) = 1
  /\ \E k \in 1..Len(active_poops) :
       /\ active_poops[k].status = "pending"
       /\ AlertCount(alerts, "new_poop", active_poops[k].id) = 0

\* ------------------------------------------------------------------------
\* C16 With the cleanup alert on, StateManager.update emits a cleanup alert
\*     exactly when the snapshot's cleaned_count is greater than that of the
\*     previous call (0 before the first call), and the alert carries the
\*     difference; so after every call the carried counts add up to the
\*     latest cleaned_count.
\* ------------------------------------------------------------------------
\* the cleaned_count of the previous call
PrevCleaned == IF "cleaned_count" \in DOMAIN last_state THEN last_state.cleaned_count ELSE 0

\* the sum of the counts a sequence of cleanup alerts carries
RECURSIVE Carried(_)
Carried(raised) == IF raised = <<>> THEN 0 ELSE Head(raised).subject + Carried(Tail(raised))

C16_CleanupDelta ==
  /\ [][StateUpdate /\ alert_cleanup =>
          AlertsOf(NewAlerts, "cleanup")
            = IF get_state.cleaned_count > PrevCleaned
              THEN <<Alert("cleanup", get_state.cleaned_count - PrevCleaned)>>
              ELSE <<>>]_vars
  /\ [](alert_cleanup /\ pc = "update" => Carried(AlertsOf(alerts, "cleanup")) = cleaned_count)

\* one call reported two cleanups at once, a later call one more, and the
\* three add up to the cleaned_count
C16_Witness ==
  /\ alert_cleanup
  /\ pc = "update"
  /\ AlertsOf(alerts, "cleanup") = <<Alert("cleanup", 2), Alert("cleanup", 1)>>
  /\ cleaned_count = 3
  /\ last_state.cleaned_count = 3

\* ------------------------------------------------------------------------
\* C17 On every StateManager.update call an aged alert is emitted for each
\*     deposit of the snapshot's active list whose age (now minus
\*     first_seen) is at least aged_minutes, again on every later call while
\*     it stays active and aged (no memory of earlier alerts); pending
\*     deposits never raise one.
\* ------------------------------------------------------------------------
\* age of a deposit in seconds
Age(poop) == now - poop.first_seen

\* aged_minutes in seconds, as a ratio
AgedSeconds == <<60 * aged_minutes[1], aged_minutes[2]>>

C17_AgedEveryCall ==
  [][StateUpdate =>
       \A id \in 0..next_id :
         AlertCount(NewAlerts, "aged_poop", id)
           = IF \E k \in 1..Len(active_poops) :
                   /\ active_poops[k].id = id
                   /\ active_poops[k].status = "active"
                   /\ ~RatGT(AgedSeconds, <<Age(active_poops[k]), 1>>)
             THEN 1 ELSE 0]_vars

\* an active deposit was reported aged on two calls, the first exactly when
\* its age reached aged_minutes, and an aged pending deposit was not
C17_Witness ==
  /\ pc = "update"
  /\ aged_minutes = <<1, 60>>
  /\ \E k \in 1..Len(active_poops) :
       /\ active_poops[k].status = "active"
       /\ Age(active_poops[k]) = 2
       /\ AlertCount(alerts, "aged_poop", active_poops[k].id) = 2
  /\ \E k \in 1..Len(active_poops) :
       /\ active_poops[k].status = "pending"
       /\ Age(active_poops[k]) >= 1
       /\ AlertCount(alerts, "aged_poop", active_poops[k].id) = 0

\* ------------------------------------------------------------------------
\* C11 After every update call get_state partitions the live deposits: each
\*     live deposit is in exactly one of active_poops (status active) and
\*     pending_poops (status pending), no deposit with status cleaned is in
\*     the live set, and get_state itself changes no tracker state.
\* ------------------------------------------------------------------------
\* how often the deposit `id` occurs in a list of deposits
Occurrences(poops, id) == Cardinality({k \in 1..Len(poops) : poops[k].id = id})

C11_GetStatePartitions ==
  /\ [](\A k \in 1..Len(active_poops) :
          /\ active_poops[k].status # "cleaned"
          /\ Occurrences(get_state.active_poops, active_poops[k].id)
               = (IF active_poops[k].status = "active" THEN 1 ELSE 0)
          /\ Occurrences(get_state.pending_poops, active_poops[k].id)
               = (IF active_poops[k].status = "pending" THEN 1 ELSE 0))
  /\ [][GetState =>
          /\ UNCHANGED trackerVars
          /\ refs_of(current_state') = Ids(active_poops)
          /\ current_state'.cleaned_count = cleaned_count
          /\ current_state'.total_deposits = total_deposits]_vars

\* get_state just returned a dict with an active and a pending deposit
C11_Witness ==
  /\ pc = "alerts"
  /\ Len(current_state.active_poops) >= 1
  /\ Len(current_state.pending_poops) >= 1
  /\ Len(active_poops) = Len(current_state.active_poops) + Len(current_state.pending_poops)

\* ------------------------------------------------------------------------
\* C12 The snapshot handed to the web server (current_state, read by the
\*     server thread) is a copy: later update calls do not change what it
\*     shows, so whenever /api/status is answered every deposit listed
\*     under its active_poops has status active and the location and box
\*     it had when the snapshot was taken.
\*     (Stated as the claim; the code violates it: the snapshot's lists
\*     hold the tracker's own objects.)
\* ------------------------------------------------------------------------
C12_SnapshotIsACopy ==
  [][Read =>
       \A k \in 1..Len(response'.active_poops) :
         LET shown == response'.active_poops[k]
         IN  /\ shown.status = "active"
             /\ shown.location = web_taken[shown.id].location
             /\ shown.bbox = web_taken[shown.id].bbox]_vars

\* ------------------------------------------------------------------------
\* C14 While a track keeps satisfying the three gates, process() emits one
\*     coordinate for it on every cycle, and the update call of the same
\*     cycle creates one further pending deposit with a fresh id for each
\*     emitted coordinate: N consecutive qualifying cycles create N pending
\*     deposits for the one episode.
\* ------------------------------------------------------------------------
\* the pending deposits an update call created at time t
CreatedPending(poops, t) ==
  SelectSeq(poops, LAMBDA p : p.status = "pending" /\ p.first_seen = t)

C14_EmittedEveryCycle ==
  /\ [][ProcessFrame =>
          LET qualifying == SelectSeq(Tracked(frame_detections), Qualifies)
          IN  returned_events' = [j \in 1..Len(qualifying) |-> BottomCenter(qualifying[j])]]_vars
  /\ [][UpdateFrame =>
          LET created == CreatedPending(active_poops', now')
          IN  /\ Len(created) = Len(returned_events)
              /\ \A j \in 1..Len(created) :
                   /\ created[j].location = returned_events[j]
                   /\ created[j].id >= next_id
                   /\ created[j].id \notin Ids(active_poops)
                   /\ \A i \in 1..Len(created) : created[i].id = created[j].id => i = j]_vars

\* one track, seen in four cycles, qualified in the last three, and three
\* pending deposits were created for it
C14_Witness ==
  /\ now = 4
  /\ pc = "get_state"
  /\ next_track_id = 1
  /\ Len(dog_tracks) = 1
  /\ Len(dog_tracks[1].positions) = 4
  /\ Len(returned_events) = 1
  /\ total_deposits = 0
  /\ next_id = 3
  /\ Len(CreatedPending(active_poops, 4)) = 1

\* ------------------------------------------------------------------------
\* Vocabulary of the properties of _calculate_iou
\* ------------------------------------------------------------------------
\* the call has returned
Returned == iou_result # <<>>

\* two ratios are the same number
RatEq(a, b) == a[1] * b[2] = b[1] * a[2]

\* x1 <= x2 and y1 <= y2
WellFormed(bbox) == bbox[1] <= bbox[3] /\ bbox[2] <= bbox[4]

Area(bbox) == (bbox[3] - bbox[1]) * (bbox[4] - bbox[2])

\* the length of the overlap of the intervals lo1..hi1 and lo2..hi2
Overlap(lo1, hi1, lo2, hi2) ==
  IF hi1 <= lo2 \/ hi2 <= lo1 THEN 0
  ELSE (IF hi1 <= hi2 THEN hi1 ELSE hi2) - (IF lo1 >= lo2 THEN lo1 ELSE lo2)

\* area of the intersection of two well-formed boxes
IntersectionArea(a, b) == Overlap(a[1], a[3], b[1], b[3]) * Overlap(a[2], a[4], b[2], b[4])

UnionArea(a, b) == Area(a) + Area(b) - IntersectionArea(a, b)

\* the boxes share no interior point
Disjoint(a, b) == IntersectionArea(a, b) = 0

\* ------------------------------------------------------------------------
\* C21 _calculate_iou is symmetric: for all boxes a and b with integer
\*     coordinates in 0..MaxCoord, IoU(a, b) = IoU(b, a).
\* ------------------------------------------------------------------------
C21_IouSymmetric ==
  Returned => iou_result = calculate_iou(iou_bbox2, iou_bbox1)

\* the call returned a ratio strictly between 0 and 1 for two different boxes
C21_Witness ==
  /\ Returned
  /\ iou_bbox1 # iou_bbox2
  /\ 0 < iou_result[1]
  /\ iou_result[1] < iou_result[2]

\* ------------------------------------------------------------------------
\* C22 For every pair of well-formed boxes with coordinates in 0..MaxCoord
\*     _calculate_iou is the intersection area divided by the union area; it
\*     is 1 for a positive-area box against itself, 0 when the boxes are
\*     disjoint or the union area is 0, and always between 0 and 1.
\* ------------------------------------------------------------------------
C22_IouIsReference ==
  Returned /\ WellFormed(iou_bbox1) /\ WellFormed(iou_bbox2) =>
    /\ iou_result[2] > 0
    /\ IF UnionArea(iou_bbox1, iou_bbox2) = 0
       THEN iou_result[1] = 0
       ELSE RatEq(iou_result,
                  <<IntersectionArea(iou_bbox1, iou_bbox2), UnionArea(iou_bbox1, iou_bbox2)>>)
    /\ (iou_bbox1 = iou_bbox2 /\ Area(iou_bbox1) > 0 => iou_result[1] = iou_result[2])
    /\ (Disjoint(iou_bbox1, iou_bbox2) => iou_result[1] = 0)
    /\ 0 <= iou_result[1]
    /\ iou_result[1] <= iou_result[2]

\* two well-formed boxes of positive area that only touch along an edge: the
\* early return is not taken and the result is 0 / union
C22_Witness ==
  /\ Returned
  /\ WellFormed(iou_bbox1) /\ WellFormed(iou_bbox2)
  /\ Area(iou_bbox1) > 0 /\ Area(iou_bbox2) > 0
  /\ iou_bbox1[3] = iou_bbox2[1]
  /\ iou_result = <<0, UnionArea(iou_bbox1, iou_bbox2)>>

\* ------------------------------------------------------------------------
\* C23 The loop body of main() runs in the fixed order detect, process,
\*     update, get_state, state_manager.update, publish, each stage acting
\*     only at its place, and the next frame is taken only after the
\*     previous one was published; the step of the server thread (the one
\*     that leaves the position of main() alone) changes no track, deposit,
\*     counter or alert.
\* ------------------------------------------------------------------------
PipelineOrder ==
  { <<"detect", "process">>, <<"process", "update">>, <<"update", "get_state">>,
    <<"get_state", "alerts">>, <<"alerts", "publish">>, <<"publish", "detect">> }

C23_FixedOrderSingleWriter ==
  [][/\ pc' # pc => <<pc, pc'>> \in PipelineOrder
     /\ frame_detections' # frame_detections => pc = "detect" /\ pc' = "process"
     /\ eventVars' # eventVars => pc = "process" /\ pc' = "update"
     /\ <<trackerVars, now, sinkVars>>' # <<trackerVars, now, sinkVars>>
          => pc = "update" /\ pc' = "get_state"
     /\ current_state' # current_state => pc = "get_state" /\ pc' = "alerts"
     /\ alertVars' # alertVars => pc = "alerts" /\ pc' = "publish"
     /\ web_state' # web_state => pc = "publish" /\ pc' = "detect"
     /\ pc' = pc => UNCHANGED <<trackerVars, now, eventVars, sinkVars, alertVars,
                                frame_detections, current_state, web_state>>]_vars

\* the second frame is being processed, and the server thread has answered
\* a request with the deposit of the first one
C23_Witness ==
  /\ pc = "process"
  /\ now = 1
  /\ web_state # <<>>
  /\ response # <<>>
  /\ response.metrics.total_deposits = 1
  /\ Len(alerts) >= 1

\* ------------------------------------------------------------------------
\* C24 In every update call the deposits are visited in the order of the
\*     live set and each takes the not yet claimed poop detection with the
\*     highest IoU among those strictly above iou_threshold, or none; no
\*     detection is claimed by two deposits and no deposit claims two
\*     detections; every poop detection either updates exactly one deposit
\*     or creates exactly one new deposit.
\* ------------------------------------------------------------------------
\* the detections claimed by the deposits before the k-th under the claims c
ClaimedBefore(c, k) == {c[j] : j \in 1..(k - 1)} \ {0}

\* detection i may be claimed by the k-th deposit under the claims c
Claimable(c, k, pd, i) ==
  /\ i \notin ClaimedBefore(c, k)
  /\ RatGT(calculate_iou(active_poops[k].bbox, pd[i].bbox), iou_threshold)

\* c[k] is the detection the k-th deposit claims, 0 for none, first come
\* first served
GreedyClaims(c, pd) ==
  \A k \in 1..Len(active_poops) :
    IF \E i \in 1..Len(pd) : Claimable(c, k, pd, i)
    THEN /\ c[k] # 0
         /\ Claimable(c, k, pd, c[k])
         /\ \A i \in 1..Len(pd) :
              Claimable(c, k, pd, i) =>
                ~RatGT(calculate_iou(active_poops[k].bbox, pd[i].bbox),
                       calculate_iou(active_poops[k].bbox, pd[c[k]].bbox))
    ELSE c[k] = 0

\* the poop detections of a frame that the list `created` of new deposits
\* was made from, in order
CreatedFrom(created, pd, unclaimed) ==
  /\ Len(created) = Cardinality(unclaimed)
  /\ \A j \in 1..Len(created) :
       \E i \in unclaimed :
         /\ Cardinality({h \in unclaimed : h < i}) = j - 1
         /\ created[j].bbox = pd[i].bbox
         /\ created[j].status = "active"
         /\ created[j].first_seen = now + 1

C24_GreedyMatching ==
  [][\A f \in MatchFrames : update(f.detections, f.pooping_events) =>
       LET pd == poop_detections_of(f.detections)
           n == Len(active_poops)
           matched == after_match(f.detections, now + 1).poops
           all == after_create(f.detections, f.pooping_events, now + 1).poops
           created == SubSeq(all, n + 1, Len(all) - Len(f.pooping_events))
       IN  \E c \in [1..n -> 0..Len(pd)] :
             /\ GreedyClaims(c, pd)
             /\ \A j, k \in 1..n : j # k /\ c[j] # 0 => c[j] # c[k]
             /\ \A k \in 1..n :
                  IF c[k] # 0
                  THEN /\ matched[k].bbox = pd[c[k]].bbox
                       /\ matched[k].last_seen = now + 1
                       /\ matched[k].missing_frames = 0
                  ELSE /\ matched[k].bbox = active_poops[k].bbox
                       /\ matched[k].last_seen = active_poops[k].last_seen
                       /\ matched[k].missing_frames = active_poops[k].missing_frames + 1
             /\ CreatedFrom(created, pd, (1..Len(pd)) \ {c[k] : k \in 1..n})]_vars

\* the deposit at BoxB was created before the one at BoxA and both have
\* missed a frame; then one detection at BoxA2, above the threshold for
\* both, was claimed by the first and the second went without
C24_Witness ==
  /\ Len(active_poops) = 2
  /\ active_poops[1].bbox = BoxA2
  /\ active_poops[1].last_seen = now
  /\ active_poops[1].first_seen < now - 1
  /\ active_poops[2].first_seen = active_poops[1].first_seen
  /\ active_poops[2].bbox = BoxA
  /\ active_poops[2].missing_frames = 2
  /\ RatGT(calculate_iou(BoxB, BoxA2), iou_threshold)
  /\ RatGT(calculate_iou(BoxA, BoxA2), calculate_iou(BoxB, BoxA2))

\* ------------------------------------------------------------------------
\* C25 In every process call the tracks are visited in creation order and
\*     each takes the nearest not yet claimed dog detection strictly closer
\*     than 100 px to its last center, or none; a detection at 100 px or more
\*     is never appended to the track, and a detection claimed by an earlier
\*     track is never appended to a later one.
\* ------------------------------------------------------------------------
\* squared distance (half pixels) of the last center of a track to a detection
Away2(track, detection) ==
  distance2(track.positions[Len(track.positions)].center, center(detection.bbox))

\* detection i may be claimed by the k-th track under the claims c
InReach(c, k, dd, i) ==
  /\ i \notin ClaimedBefore(c, k)
  /\ Away2(dog_tracks[k], dd[i]) < (2 * 100) * (2 * 100)

\* c[k] is the detection the k-th track claims, 0 for none
NearestClaims(c, dd) ==
  \A k \in 1..Len(dog_tracks) :
    IF \E i \in 1..Len(dd) : InReach(c, k, dd, i)
    THEN /\ c[k] # 0
         /\ InReach(c, k, dd, c[k])
         /\ \A i \in 1..Len(dd) :
              InReach(c, k, dd, i) => Away2(dog_tracks[k], dd[i]) >= Away2(dog_tracks[k], dd[c[k]])
    ELSE c[k] = 0

\* the samples of a track as (box, time) pairs
Samples(track) ==
  [j \in 1..Len(track.positions) |-> <<track.positions[j].bbox, track.positions[j].timestamp>>]

C25_NearestWithinGate ==
  [][\A detections \in TrackFrames :
       IsProcess(detections) =>
         LET dd == dog_detections_of(detections)
             n == Len(dog_tracks)
             tracks == Tracked(detections)
         IN  \E c \in [1..n -> 0..Len(dd)] :
               /\ NearestClaims(c, dd)
               /\ \A k \in 1..n : tracks[k].track_id = dog_tracks[k].track_id
               /\ \A k \in 1..n :
                    IF c[k] # 0
                    THEN /\ Away2(dog_tracks[k], dd[c[k]]) < (2 * 100) * (2 * 100)
                         /\ \A j \in 1..(k - 1) : c[j] # c[k]
                         /\ Samples(tracks[k])
                              = Append(Samples(dog_tracks[k]), <<dd[c[k]].bbox, now + 1>>)
                    ELSE tracks[k] = dog_tracks[k]]_vars

\* the track at DogA was offered a detection exactly 100 px away and did not
\* take it (a second track was made of it); then a detection 60 px from the
\* first and 40 px from the second was taken by the first
C25_Witness ==
  /\ Len(dog_tracks) = 2
  /\ Samples(dog_tracks[1]) = <<<<DogA, now - 2>>, <<Dog60, now>>>>
  /\ Samples(dog_tracks[2]) = <<<<Dog100, now - 1>>>>

\* ------------------------------------------------------------------------
\* C26 In every process call each dog detection that no track took makes
\*     exactly one new track, whose id is the value of next_track_id at that
\*     moment, and next_track_id grows by one for it; so the ids of the live
\*     tracks are strictly increasing in creation order, distinct and below
\*     next_track_id, and the id of a dropped track is never given again.
\* ------------------------------------------------------------------------
TrackIds(tracks) == {tracks[k].track_id : k \in 1..Len(tracks)}

C26_FreshTrackIds ==
  /\ [](/\ \A j, k \in 1..Len(dog_tracks) :
              j < k => dog_tracks[j].track_id < dog_tracks[k].track_id
        /\ \A k \in 1..Len(dog_tracks) : dog_tracks[k].track_id < next_track_id)
  /\ [][\A detections \in TrackFrames :
          IsProcess(detections) =>
            LET dd == dog_detections_of(detections)
                n == Len(dog_tracks)
                tracks == Tracked(detections)
                taken == Cardinality({k \in 1..n : tracks[k] # dog_tracks[k]})
                made == SubSeq(tracks, n + 1, Len(tracks))
            IN  /\ Len(made) = Len(dd) - taken
                /\ \A j \in 1..Len(made) :
                     /\ made[j].track_id = next_track_id + j - 1
                     /\ Len(made[j].positions) = 1
                     /\ \E i \in 1..Len(dd) : Samples(made[j]) = <<<<dd[i].bbox, now + 1>>>>
                /\ next_track_id' = next_track_id + Len(made)
                /\ TrackIds(dog_tracks') \ TrackIds(dog_tracks)
                     \subseteq next_track_id..(next_track_id' - 1)]_vars

\* track 0 was dropped; then one call made two tracks of its two
\* detections, with the ids 1 and 2
C26_Witness ==
  /\ Len(dog_tracks) = 2
  /\ dog_tracks[1].track_id = 1
  /\ dog_tracks[2].track_id = 2
  /\ Samples(dog_tracks[1]) = <<<<Dog60, now>>>>
  /\ Samples(dog_tracks[2]) = <<<<DogA5, now>>>>
  /\ next_track_id = 3

\* ------------------------------------------------------------------------
\* C28 After every process call no track remains whose last update is more
\*     than 1.0 s old, and a track that took a detection in the call (or was
\*     made in it) is always kept.
\* ------------------------------------------------------------------------
C28_StaleTracksDropped ==
  /\ [](\A k \in 1..Len(dog_tracks) : now - dog_tracks[k].last_update <= 1)
  /\ [][\A detections \in TrackFrames :
          IsProcess(detections) =>
            LET tracks == Tracked(detections)
            IN  \A k \in 1..Len(tracks) :
                  tracks[k].last_update = now + 1 =>
                    \E j \in 1..Len(dog_tracks') : dog_tracks'[j] = tracks[k]]_vars

\* a call dropped track 0, two seconds old, kept track 1, one second old,
\* and made track 2
C28_Witness ==
  /\ Len(dog_tracks) = 2
  /\ dog_tracks[1].track_id = 1
  /\ dog_tracks[1].last_update = now - 1
  /\ dog_tracks[2].track_id = 2
  /\ dog_tracks[2].last_update = now
  /\ Len(dog_tracks[2].positions) = 1

\* ------------------------------------------------------------------------
\* C29 process() returns coordinates of live tracks only: a track that took
\*     no detection in the call and whose last update is already more than
\*     1.0 s old when the call runs contributes no coordinate.
\*     (Stated as the claim; the code violates it.)
\* ------------------------------------------------------------------------
\* the track is past the staleness window in the call made at now + 1
PastWindow(track) == (now + 1) - track.last_update > 1

C29_NoEventFromStaleTrack ==
  [][\A detections \in TrackFrames :
       IsProcess(detections) =>
         LET live == SelectSeq(Tracked(detections), LAMBDA track : ~PastWindow(track))
             qualifying == SelectSeq(live, Qualifies)
         IN  returned_events' = [j \in 1..Len(qualifying) |-> BottomCenter(qualifying[j])]]_vars

\* ------------------------------------------------------------------------
\* C30 A track with fewer than two samples reports the movement "infinity"
\*     and passes _is_pooping under no thresholds, so a process call returns
\*     no coordinate for it: at most one coordinate per track with two or
\*     more samples.
\* ------------------------------------------------------------------------
\* thresholds from the most permissive to the explored ones
AnyStationary == 0..2
AnyAspect == {<<1, 2>>, <<2, 1>>, <<100, 1>>}

C30_ShortTrackNeverEmits ==
  [][\A detections \in TrackFrames :
       IsProcess(detections) =>
         LET tracks == Tracked(detections)
             long == {k \in 1..Len(tracks) : Len(tracks[k].positions) >= 2}
         IN  /\ \A k \in (1..Len(tracks)) \ long :
                  /\ get_average_movement(tracks[k]) = <<1, 0>>
                  /\ \A s \in AnyStationary, a \in AnyAspect : ~is_pooping(tracks[k], s, a)
             /\ Len(returned_events') <= Cardinality(long)]_vars

\* with stationary_threshold 0 and a wide aspect gate, the call that took
\* the second sample of track 0 and made track 1 returned one coordinate,
\* that of track 0
C30_Witness ==
  /\ stationary_threshold = 0
  /\ aspect_ratio_threshold = <<2, 1>>
  /\ Len(dog_tracks) = 2
  /\ Samples(dog_tracks[1]) = <<<<DogA, now - 1>>, <<DogA5, now>>>>
  /\ Samples(dog_tracks[2]) = <<<<Dog60, now>>>>
  /\ returned_events = <<BottomCenter(dog_tracks[1])>>

\* ------------------------------------------------------------------------
\* C27 Every live track holds at least 1 and at most 90 samples; a track
\*     that takes a detection holds afterwards its samples followed by the
\*     new one, without the oldest if it held 90 already: the 90 most recent
\*     in arrival order.
\* ------------------------------------------------------------------------
\* the n most recent elements of a sequence, in order
MostRecent(seq, n) ==
  IF Len(seq) <= n THEN seq ELSE SubSeq(seq, Len(seq) - n + 1, Len(seq))

C27_HistoryBounded ==
  /\ [](\A k \in 1..Len(dog_tracks) :
          /\ Len(dog_tracks[k].positions) >= 1
          /\ Len(dog_tracks[k].positions) <= 90)
  /\ [][\A detections \in HistoryFrames :
          IsProcess(detections) =>
            LET dd == dog_detections_of(detections)
                tracks == Tracked(detections)
            IN  \A k \in 1..Len(dog_tracks) :
                  \/ tracks[k] = dog_tracks[k]
                  \/ \E i \in 1..Len(dd) :
                       Samples(tracks[k])
                         = MostRecent(Append(Samples(dog_tracks[k]), <<dd[i].bbox, now + 1>>),
                                      90)]_vars

\* a track holds 90 samples, the newest taken in the last call and the
\* oldest no longer the one it was created with
C27_Witness ==
  \E k \in 1..Len(dog_tracks) :
    /\ Len(dog_tracks[k].positions) = 90
    /\ dog_tracks[k].positions[90].timestamp = now
    /\ dog_tracks[k].positions[90].bbox = DogA5
    /\ dog_tracks[k].positions[1].timestamp = 3

\* ------------------------------------------------------------------------
\* C31 In every reachable state cleaned_count <= total_deposits, only
\*     deposits counted in total_deposits are ever counted as cleaned, and
\*     neither counter ever decreases.
\*     (Stated as the claim; the code violates it.)
\* ------------------------------------------------------------------------
C31_CleanedWithinTotal ==
  /\ [](cleaned_count <= total_deposits)
  /\ [][/\ cleaned_count' >= cleaned_count
        /\ total_deposits' >= total_deposits]_vars

\* ------------------------------------------------------------------------
\* C32 After every update call each deposit of the live set satisfies
\*     0 <= cleanup_candidate_frames <= missing_frames < stale_threshold and
\*     cleanup_candidate_frames < cleanup_confirm_frames.
\* ------------------------------------------------------------------------
C32_CountersWithinThresholds ==
  \A k \in 1..Len(active_poops) :
    /\ 0 <= active_poops[k].cleanup_candidate_frames
    /\ active_poops[k].cleanup_candidate_frames <= active_poops[k].missing_frames
    /\ active_poops[k].missing_frames < stale_threshold
    /\ active_poops[k].cleanup_candidate_frames < cleanup_confirm_frames

\* a live deposit one miss short of the staleness threshold and one frame
\* of proximity short of the confirm count, with a miss without a person in
\* between (streak 1, missed 2)
C32_Witness ==
  \E k \in 1..Len(active_poops) :
    /\ active_poops[k].missing_frames = stale_threshold - 1
    /\ active_poops[k].cleanup_candidate_frames = cleanup_confirm_frames - 1
    /\ active_poops[k].cleanup_candidate_frames = 1
    /\ active_poops[k].missing_frames = 2

\* ------------------------------------------------------------------------
\* C33 If cleanup_confirm_frames is greater than stale_threshold, no
\*     deposit is ever cleaned: cleaned_count stays 0, no "poop_cleaned"
\*     notification is emitted and no deposit has status cleaned.
\* ------------------------------------------------------------------------
C33_NeverCleanedWhenConfirmLate ==
  cleanup_confirm_frames > stale_threshold =>
    /\ cleaned_count = 0
    /\ \A i \in 1..Len(notifications) : notifications[i].kind # "poop_cleaned"
    /\ \A k \in 1..Len(active_poops) : active_poops[k].status # "cleaned"

\* the confirm count is above the staleness threshold and a live deposit
\* has had a person nearby in every call it missed, one miss short of being
\* pruned
C33_Witness ==
  /\ cleanup_confirm_frames > stale_threshold
  /\ \E k \in 1..Len(active_poops) :
       /\ active_poops[k].missing_frames = stale_threshold - 1
       /\ active_poops[k].cleanup_candidate_frames = active_poops[k].missing_frames
       /\ active_poops[k].cleanup_candidate_frames >= 1

\* ------------------------------------------------------------------------
\* C34 In main() a frame the detector skips (frame_count not a multiple of
\*     inference_interval) reaches the tracker as an empty detection list:
\*     the update call raises missing_frames of every live deposit by one
\*     and sets its cleanup-candidate counter to 0.  So with
\*     inference_interval >= 2 and cleanup_confirm_frames >= 2 no deposit is
\*     ever cleaned.
\* ------------------------------------------------------------------------
\* the frame main() is working on was skipped by the detector
Skipped == frame_count % inference_interval # 0

MaxEvents ==
  CHOOSE e \in 0..4 :
    /\ \E f \in Frames : Len(f.pooping_events) = e
    /\ \A f \in Frames : Len(f.pooping_events) <= e

C35_PendingBounded ==
  Len(get_state.pending_poops) <= MaxEvents * stale_threshold

\* the bound is met: stale_threshold calls in a row brought MaxEvents event
\* points each, and the deposits of the first of them are still listed
C35_Witness ==
  /\ stale_threshold >= 2
  /\ MaxEvents = 2
  /\ Len(get_state.pending_poops) = MaxEvents * stale_threshold
  /\ get_state.pending_poops[1].missing_frames = stale_threshold - 1

\* ------------------------------------------------------------------------
\* C36 With the sink registered, after any sequence of update calls
\*     total_deposits is the number of "poop_detected" notifications emitted
\*     so far and cleaned_count the number of "poop_cleaned" ones, whether
\*     the transport of the sink failed on them or not.
\* ------------------------------------------------------------------------
\* how many notifications of a kind were emitted
Emitted(kind) ==
  Cardinality({i \in 1..Len(notifications) : notifications[i].kind = kind})

C36_CountersMatchNotifications ==
  /\ total_deposits = Emitted("poop_detected")
  /\ cleaned_count = Emitted("poop_cleaned")

\* two deposits were counted and one cleanup, and the transport failed on
\* some of their notifications
C36_Witness ==
  /\ total_deposits = 2
  /\ cleaned_count = 1
  /\ Len(notifications) >= 3
  /\ \E i \in 1..Len(sink_errors) : sink_errors[i].kind = "poop_detected"
  /\ \E i \in 1..Len(sink_errors) : sink_errors[i].kind = "poop_cleaned"

\* ------------------------------------------------------------------------
\* C37 Across StateManager.update calls the known-id set only grows, each
\*     deposit id raises a "new poop" alert at most once, the alert is
\*     raised by the call on the first snapshot that lists the deposit as
\*     active (so after every call each listed active deposit has its one
\*     alert, when the alert is on), and a deposit that is pending has none.
\* ------------------------------------------------------------------------
C37_NewPoopAlertOnce ==
  /\ [](\A id \in 0..next_id : AlertCount(alerts, "new_poop", id) <= 1)
  /\ [](\A k \in 1..Len(active_poops) :
          /\ active_poops[k].status = "pending"
               => AlertCount(alerts, "new_poop", active_poops[k].id) = 0
          /\ active_poops[k].status = "active" /\ pc = "update"
               => AlertCount(alerts, "new_poop", active_poops[k].id)
                    = IF alert_new_poop THEN 1 ELSE 0)
  /\ [][/\ known_poop_ids \subseteq known_poop_ids'
        /\ \A a \in Range(AlertsOf(NewAlerts, "new_poop")) :
             /\ pc = "alerts"
             /\ a.subject \in Ids(get_state.active_poops)
             /\ a.subject \notin known_poop_ids]_vars

\* the id of a pruned deposit is still known; a deposit listed as active
\* for the second time has its one alert and a deposit listed as pending
\* for the second time has none
C37_Witness ==
  /\ alert_new_poop
  /\ pc = "update"
  /\ known_poop_ids \ Ids(active_poops) # {}
  /\ \E k \in 1..Len(active_poops) :
       /\ active_poops[k].status = "active"
       /\ active_poops[k].first_seen < now
       /\ AlertCount(alerts, "new_poop", active_poops[k].id) = 1
  /\ \E k \in 1..Len(active_poops) :
       /\ active_poops[k].status = "pending"
       /\ active_poops[k].missing_frames >= 1
       /\ AlertCount(alerts, "new_poop", active_poops[k].id) = 0

\* ------------------------------------------------------------------------
\* C38 In every process call each dog detection of the frame ends up in
\*     exactly one track: it is the newest sample of one existing track or
\*     of one track made in the call, and of no other; an existing track
\*     gains at most one sample, a track that took none is unchanged, and a
\*     track made in the call holds exactly one sample.
\* ------------------------------------------------------------------------
\* the samples of a track taken in the call in progress
Gained(track) == {j \in 1..Len(track.positions) : track.positions[j].timestamp = now + 1}

C38_OneTrackPerDetection ==
  [][\A detections \in TrackFrames :
       IsProcess(detections) =>
         LET dd == dog_detections_of(detections)
             n == Len(dog_tracks)
             tracks == Tracked(detections)
         IN  \E a \in [1..Len(dd) -> 1..Len(tracks)] :
               LET taking == {a[i] : i \in 1..Len(dd)}
               IN  /\ \A i, j \in 1..Len(dd) : i # j => a[i] # a[j]
                   /\ \A i \in 1..Len(dd) :
                        LET sample == <<dd[i].bbox, now + 1>>
                            track == tracks[a[i]]
                        IN  IF a[i] <= n
                            THEN Samples(track)
                                   = MostRecent(Append(Samples(dog_tracks[a[i]]), sample),
                                                Len(track.positions))
                            ELSE Samples(track) = <<sample>>
                   /\ \A k \in 1..Len(tracks) :
                        /\ Cardinality(Gained(tracks[k])) = IF k \in taking THEN 1 ELSE 0
                        /\ k <= n => Len(tracks[k].positions) <= Len(dog_tracks[k].positions) + 1
                        /\ k <= n /\ k \notin taking => tracks[k] = dog_tracks[k]
                        /\ k > n => k \in taking /\ Len(tracks[k].positions) = 1]_vars

\* of the two detections of the last frame the one 5 px from the track at
\* DogA was appended to it and the other made the second track; the frame
\* before had no detection and the track gained nothing
C38_Witness ==
  /\ Len(dog_tracks) = 2
  /\ Samples(dog_tracks[1]) = <<<<DogA, now - 2>>, <<DogA5, now>>>>
  /\ Samples(dog_tracks[2]) = <<<<Dog60, now>>>>

====
